---------------------------- MODULE Spec2Model ----------------------------
(***************************************************************************)
(* Keyframe motion model and motion player of the quadruped skeleton       *)
(* library (animal_models/motion.py, animal_models/skeleton.py,            *)
(* animal_models/cat.py).                                                  *)
(*                                                                         *)
(* Numbers.  The program computes with floats.  Here times are integers    *)
(* (ticks of a time grid) and every rotation component, easing value and   *)
(* blend weight is an exact rational <<n, d>> in lowest terms with d > 0,  *)
(* so that interpolation, easing and blending are computed, not assumed.   *)
(* Floating-point rounding is outside the model.                           *)
(***************************************************************************)
EXTENDS Integers, Sequences, FiniteSets, TLC

(***************************************************************************)
(* Bounds of the model.                                                    *)
(***************************************************************************)
\* keyframe times are multiples of KeyStep ticks, 0 .. MaxKeyUnits steps
KeyStep == 2
MaxKeyUnits == 2
\* keyframes added to one sequence
MaxKeyframes == 2

\* calls made on one MotionPlayer in a behaviour
MaxCalls == 4
\* the longest blend, the largest update step and start offset (ticks), the
\* largest playback speed, and the latest time the player is driven to
MaxBlend == 4
MaxDelta == 2
MaxStart == 1
MaxSpeed == 2
MaxPlayTime == 5

MaxKeyTime == KeyStep * MaxKeyUnits
KeyTimes == {KeyStep * k : k \in 0..MaxKeyUnits}
\* query times handed to get_rotations_at_time: below 0, inside and beyond
\* two full periods of the longest sequence
QueryTimes == (0 - MaxKeyTime)..(3 * MaxKeyTime)

(***************************************************************************)
(* Rational arithmetic (the program's float arithmetic, made exact).       *)
(***************************************************************************)
Abs(x) == IF x < 0 THEN 0 - x ELSE x

RECURSIVE GCD(_, _)
GCD(a, b) == IF b = 0 THEN a ELSE GCD(b, a % b)

Rat(n, d) ==
    LET s == IF d < 0 THEN 0 - 1 ELSE 1
        g == GCD(Abs(n), Abs(d))
    IN  <<(s * n) \div g, (s * d) \div g>>

R0 == <<0, 1>>
R1 == <<1, 1>>
RInt(n) == <<n, 1>>
\* sums over the least common denominator; x + 0, 0 * x and 1 * x are
\* answered without arithmetic
RAdd(a, b) ==
    IF a[1] = 0 THEN b
    ELSE IF b[1] = 0 THEN a
    ELSE LET g == GCD(a[2], b[2])
         IN  Rat(a[1] * (b[2] \div g) + b[1] * (a[2] \div g),
                 (a[2] \div g) * b[2])
RSub(a, b) ==
    IF b[1] = 0 THEN a
    ELSE LET g == GCD(a[2], b[2])
         IN  Rat(a[1] * (b[2] \div g) - b[1] * (a[2] \div g),
                 (a[2] \div g) * b[2])
RMul(a, b) ==
    IF a[1] = 0 \/ b[1] = 0 THEN <<0, 1>>
    ELSE IF a = <<1, 1>> THEN b
    ELSE IF b = <<1, 1>> THEN a
    ELSE Rat(a[1] * b[1], a[2] * b[2])
RLt(a, b) ==
    LET g == GCD(a[2], b[2]) IN a[1] * (b[2] \div g) < b[1] * (a[2] \div g)
RLe(a, b) ==
    LET g == GCD(a[2], b[2]) IN a[1] * (b[2] \div g) <= b[1] * (a[2] \div g)

\* np.array([x, y, z]) with integer components, and np.zeros(3)
Vec(x, y, z) == <<RInt(x), RInt(y), RInt(z)>>
Zeros3 == Vec(0, 0, 0)
\* rot_a * (1 - t) + rot_b * t, componentwise (motion.py:171, motion.py:296)
Lerp(a, b, t) ==
    [i \in 1..3 |-> RAdd(RMul(a[i], RSub(R1, t)), RMul(b[i], t))]

(***************************************************************************)
(* Easing functions, motion.py:33-66.                                      *)
(***************************************************************************)
\* np.sin(pi * r) for 0 <= r <= 1.  The sine is irrational; it is
\* modelled by Bhaskara's rational approximation, which is exact at
\* r = 0, 1/6, 1/2, 5/6, 1 and within 0.002 elsewhere, and like the sine is
\* positive exactly on the open interval.
SinPi(r) ==
    LET p == RMul(r, RSub(R1, r))
        den == RSub(RInt(5), RMul(RInt(4), p))
    IN  Rat(16 * p[1] * den[2], p[2] * den[1])

ease_linear(t) == t

ease_in(t) == RMul(t, t)

ease_out(t) == RSub(R1, RMul(RSub(R1, t), RSub(R1, t)))

ease_in_out(t) ==
    IF RLt(t, Rat(1, 2))
    THEN RMul(RInt(2), RMul(t, t))
    ELSE LET u == RAdd(RMul(RInt(0 - 2), t), RInt(2))
         IN  RSub(R1, RMul(RMul(u, u), Rat(1, 2)))

\* ease_bounce settling at 1 with no overshoot
ease_bounce_Settled(t) ==
    IF RLt(t, Rat(1, 2))
    THEN RMul(RInt(2), RMul(t, t))
    ELSE R1

ease_bounce(t) ==
    IF RLt(t, Rat(1, 2))
    THEN RMul(RInt(2), RMul(t, t))
    ELSE IF RLt(t, Rat(3, 4))
         THEN RAdd(R1, RMul(Rat(1, 10),
                            SinPi(RMul(RSub(t, Rat(1, 2)), RInt(4)))))
         ELSE R1

EaseType == {"LINEAR", "EASE_IN", "EASE_OUT", "EASE_IN_OUT", "BOUNCE"}

EASING_FUNCTIONS(easing, t) ==
    CASE easing = "LINEAR" -> ease_linear(t)
      [] easing = "EASE_IN" -> ease_in(t)
      [] easing = "EASE_OUT" -> ease_out(t)
      [] easing = "EASE_IN_OUT" -> ease_in_out(t)
      [] easing = "BOUNCE" -> ease_bounce(t)
      [] OTHER -> ease_linear(t)

LoopMode == {"ONCE", "LOOP", "PING_PONG"}

(***************************************************************************)
(* Keyframe and MotionSequence, motion.py:69-180.                          *)
(* A keyframe is [time, rotations, easing]; rotations is a function from   *)
(* the joint types it names to rotation vectors.  A MotionSequence is      *)
(* [name, keyframes, loop_mode, base_pose].                                *)
(***************************************************************************)
NoPose == "<none>"

Keyframe(time, rotations, easing) ==
    [time |-> time, rotations |-> rotations, easing |-> easing]

MotionSequence(name, keyframes, loop_mode, base_pose) ==
    [name |-> name, keyframes |-> keyframes, loop_mode |-> loop_mode,
     base_pose |-> base_pose]

RECURSIVE MaxTimeOf(_)
MaxTimeOf(kfs) ==
    IF Len(kfs) = 1 THEN kfs[1].time
    ELSE LET m == MaxTimeOf(Tail(kfs))
         IN  IF kfs[1].time >= m THEN kfs[1].time ELSE m

\* MotionSequence.duration
duration(seq) ==
    IF seq.keyframes = <<>> THEN 0 ELSE MaxTimeOf(seq.keyframes)

\* InsertByTime placing the element before the elements equal to it: an
\* ascending sort that reverses equal keys
RECURSIVE InsertByTime_BeforeEqual(_, _)
InsertByTime_BeforeEqual(sorted, kf) ==
    IF sorted = <<>> THEN <<kf>>
    ELSE IF sorted[1].time < kf.time
         THEN <<sorted[1]>> \o InsertByTime_BeforeEqual(Tail(sorted), kf)
         ELSE <<kf>> \o sorted

\* list.sort(key=lambda kf: kf.time): a stable ascending sort.  Insertion
\* from the left, each element placed after the elements that do not
\* exceed it, keeps equal keys in their original order.
RECURSIVE InsertByTime(_, _)
InsertByTime(sorted, kf) ==
    IF sorted = <<>> THEN <<kf>>
    ELSE IF sorted[1].time <= kf.time
         THEN <<sorted[1]>> \o InsertByTime(Tail(sorted), kf)
         ELSE <<kf>> \o sorted

RECURSIVE SortByTimeFrom(_, _)
SortByTimeFrom(done, rest) ==
    IF rest = <<>> THEN done
    ELSE SortByTimeFrom(InsertByTime(done, rest[1]), Tail(rest))

SortByTime(kfs) == SortByTimeFrom(<<>>, kfs)

\* MotionSequence.add_keyframe: the keyframe list after the call
add_keyframe(seq, kf) ==
    [seq EXCEPT !.keyframes = SortByTime(Append(seq.keyframes, kf))]

\* int(x / y) for y > 0: Python truncates toward zero
IntDiv(x, y) == IF x >= 0 THEN x \div y ELSE 0 - ((0 - x) \div y)

\* RemapTime with the end of a LOOP period kept at the end instead of wrapped
RemapTime_LoopKeepsEnd(loop_mode, time, dur) ==
    IF loop_mode = "LOOP"
    THEN IF time > 0 /\ time % dur = 0 THEN dur ELSE time % dur
    ELSE IF loop_mode = "PING_PONG"
         THEN IF IntDiv(time, dur) % 2 = 1
              THEN dur - (time % dur)
              ELSE time % dur
         ELSE IF time <= dur THEN time ELSE dur

\* RemapTime with the PING_PONG backward half-cycle running forward
RemapTime_PingPongForward(loop_mode, time, dur) ==
    IF loop_mode = "LOOP" THEN time % dur
    ELSE IF loop_mode = "PING_PONG" THEN time % dur
    ELSE IF time <= dur THEN time ELSE dur

\* RemapTime without the ONCE clamp to the duration
RemapTime_OnceUnclamped(loop_mode, time, dur) ==
    IF loop_mode = "LOOP" THEN time % dur
    ELSE IF loop_mode = "PING_PONG"
         THEN IF IntDiv(time, dur) % 2 = 1
              THEN dur - (time % dur)
              ELSE time % dur
         ELSE time

\* motion.py:131-140, the query time remapped by the loop mode (dur > 0).
\* Python's % takes the sign of the divisor, as % does here.
RemapTime(loop_mode, time, dur) ==
    IF loop_mode = "LOOP" THEN time % dur
    ELSE IF loop_mode = "PING_PONG"
         THEN IF IntDiv(time, dur) % 2 = 1
              THEN dur - (time % dur)
              ELSE time % dur
         ELSE IF time <= dur THEN time ELSE dur

\* ScanKeyframes without the break: next ends as the last keyframe at or
\* after the query time
RECURSIVE ScanKeyframes_NoBreak(_, _, _, _)
ScanKeyframes_NoBreak(kfs, time, i, prev) ==
    IF i > Len(kfs) THEN <<prev, Len(kfs)>>
    ELSE LET p == IF kfs[i].time <= time THEN i ELSE prev
         IN  ScanKeyframes_NoBreak(kfs, time, i + 1, p)

\* ScanKeyframes stopping only past the query time: of keyframes sharing
\* the query time the last one becomes both prev and next
RECURSIVE ScanKeyframes_BreakPastTies(_, _, _, _)
ScanKeyframes_BreakPastTies(kfs, time, i, prev) ==
    IF i > Len(kfs) THEN <<prev, Len(kfs)>>
    ELSE LET p == IF kfs[i].time <= time THEN i ELSE prev
         IN  IF kfs[i].time > time THEN <<p, i>>
             ELSE ScanKeyframes_BreakPastTies(kfs, time, i + 1, p)

\* motion.py:143-151, the scan for the surrounding keyframes: the indices
\* <<prev, next>> after the loop, which stops at the first keyframe whose
\* time is not below the query time.
RECURSIVE ScanKeyframes(_, _, _, _)
ScanKeyframes(kfs, time, i, prev) ==
    IF i > Len(kfs) THEN <<prev, Len(kfs)>>
    ELSE LET p == IF kfs[i].time <= time THEN i ELSE prev
         IN  IF kfs[i].time >= time THEN <<p, i>>
             ELSE ScanKeyframes(kfs, time, i + 1, p)

FindSurrounding(kfs, time) == ScanKeyframes(kfs, time, 1, 1)

\* dict.get(joint, np.zeros(3))
RotOf(rotations, joint) ==
    IF joint \in DOMAIN rotations THEN rotations[joint] ELSE Zeros3

\* Interpolate with the easing of the incoming keyframe
Interpolate_EasingOfNext(prev_kf, next_kf, time) ==
    IF prev_kf.time = next_kf.time THEN prev_kf.rotations
    ELSE LET t == Rat(time - prev_kf.time, next_kf.time - prev_kf.time)
             e == EASING_FUNCTIONS(next_kf.easing, t)
             all_joints == DOMAIN prev_kf.rotations \cup DOMAIN next_kf.rotations
         IN  [joint \in all_joints |->
                 Lerp(RotOf(prev_kf.rotations, joint),
                      RotOf(next_kf.rotations, joint), e)]

\* motion.py:153-173
Interpolate(prev_kf, next_kf, time) ==
    IF prev_kf.time = next_kf.time THEN prev_kf.rotations
    ELSE LET t == Rat(time - prev_kf.time, next_kf.time - prev_kf.time)
             e == EASING_FUNCTIONS(prev_kf.easing, t)
             all_joints == DOMAIN prev_kf.rotations \cup DOMAIN next_kf.rotations
         IN  [joint \in all_joints |->
                 Lerp(RotOf(prev_kf.rotations, joint),
                      RotOf(next_kf.rotations, joint), e)]

\* MotionSequence.get_rotations_at_time: the mapping it returns
get_rotations_at_time(seq, time) ==
    IF seq.keyframes = <<>> THEN <<>>
    ELSE IF duration(seq) <= 0 THEN seq.keyframes[1].rotations
    ELSE LET t == RemapTime(seq.loop_mode, time, duration(seq))
             pn == FindSurrounding(seq.keyframes, t)
         IN  Interpolate(seq.keyframes[pn[1]], seq.keyframes[pn[2]], t)

\* motion.py:128-129 returns the first keyframe's own dict, not a copy:
\* the caller's writes into the result are writes into that keyframe.
ReturnsKeyframeDict(seq) ==
    seq.keyframes # <<>> /\ duration(seq) <= 0

(***************************************************************************)
(* Skeleton, skeleton.py:14-58 and 250-556; named poses, cat.py:83-286.    *)
(***************************************************************************)
JointType ==
    {"ROOT", "SPINE_LOWER", "SPINE_MID", "SPINE_UPPER",
     "NECK", "HEAD", "NOSE", "LEFT_EAR", "RIGHT_EAR", "LEFT_EYE", "RIGHT_EYE",
     "TAIL_BASE", "TAIL_MID", "TAIL_TIP",
     "LEFT_SHOULDER", "LEFT_FRONT_UPPER", "LEFT_FRONT_LOWER", "LEFT_FRONT_PAW",
     "RIGHT_SHOULDER", "RIGHT_FRONT_UPPER", "RIGHT_FRONT_LOWER",
     "RIGHT_FRONT_PAW",
     "LEFT_HIP", "LEFT_BACK_UPPER", "LEFT_BACK_LOWER", "LEFT_BACK_PAW",
     "RIGHT_HIP", "RIGHT_BACK_UPPER", "RIGHT_BACK_LOWER", "RIGHT_BACK_PAW"}

\* the keys of QuadrupedSkeleton.joints after _build_skeleton: every type
BuiltJoints == JointType

\* Joint.rotation of every joint right after construction
RestRotation == [j \in BuiltJoints |-> Zeros3]

\* CatSkeleton._poses, the 'standing' entry (cat.py:88-96)
StandingPose ==
    [j \in {"NECK", "HEAD", "TAIL_BASE", "TAIL_MID", "TAIL_TIP"} |->
        CASE j = "NECK" -> <<Rat(1, 10), R0, R0>>
          [] j = "HEAD" -> <<Rat(15, 100), R0, R0>>
          [] j = "TAIL_BASE" -> <<Rat(3, 10), R0, R0>>
          [] j = "TAIL_MID" -> <<Rat(1, 10), R0, R0>>
          [] j = "TAIL_TIP" -> <<Rat(0 - 1, 10), R0, R0>>]

\* CatSkeleton._poses, the 'alert' entry (cat.py:202-215)
AlertPose ==
    [j \in {"SPINE_MID", "NECK", "HEAD", "LEFT_EAR", "RIGHT_EAR",
            "TAIL_BASE", "TAIL_MID", "TAIL_TIP"} |->
        CASE j = "SPINE_MID" -> <<Rat(1, 10), R0, R0>>
          [] j = "NECK" -> <<Rat(5, 10), R0, R0>>
          [] j = "HEAD" -> <<Rat(3, 10), R0, R0>>
          [] j = "LEFT_EAR" -> <<Rat(2, 10), R0, Rat(1, 10)>>
          [] j = "RIGHT_EAR" -> <<Rat(2, 10), R0, Rat(0 - 1, 10)>>
          [] j = "TAIL_BASE" -> <<Rat(5, 10), R0, R0>>
          [] j = "TAIL_MID" -> <<Rat(2, 10), R0, R0>>
          [] j = "TAIL_TIP" -> <<Rat(0 - 1, 10), R0, R0>>]

\* the poses of the library that are modelled
PoseNames == {"standing", "alert"}
Poses(pose_name) == IF pose_name = "standing" THEN StandingPose ELSE AlertPose

\* reset_pose leaving the root's rotation as it is
reset_pose_KeepsRoot(rot) ==
    [j \in DOMAIN rot |-> IF j = "ROOT" THEN rot[j] ELSE Zeros3]

\* QuadrupedSkeleton.reset_pose: the joint rotations after the call
reset_pose(rot) == [j \in DOMAIN rot |-> Zeros3]

\* QuadrupedSkeleton.set_joint_rotation: the rotations after the call
set_joint_rotation(rot, joint_type, value) ==
    IF joint_type \in DOMAIN rot
    THEN [rot EXCEPT ![joint_type] = value]
    ELSE rot

\* the loop "for joint_type, rotation in rotations.items():
\* skeleton.set_joint_rotation(joint_type, rotation)"
ApplyRotations(rot, rotations) ==
    [j \in DOMAIN rot |->
        IF j \in DOMAIN rotations
        THEN set_joint_rotation(rot, j, rotations[j])[j]
        ELSE rot[j]]

(***************************************************************************)
(* Joint hierarchy and forward kinematics, skeleton.py:61-141 and 144-514. *)
(* A vector is a triple of rationals, a matrix a triple of rows.           *)
(***************************************************************************)
RNeg(a) == <<0 - a[1], a[2]>>
RDiv(a, b) == Rat(a[1] * b[2], a[2] * b[1])

\* np.cos and np.sin return the exact value rounded to the float grid.  Here
\* the value is the low-order Taylor polynomial and the grid is the
\* multiples of 1 / TrigGrid; both are exact at 0 (cos 0 = 1, sin 0 = 0).
TrigGrid == 8
RoundToGrid(x) ==
    Rat((2 * x[1] * TrigGrid + x[2]) \div (2 * x[2]), TrigGrid)
Cos(x) == RoundToGrid(RSub(R1, RMul(RMul(x, x), Rat(1, 2))))
Sin(x) == RoundToGrid(RMul(x, RSub(R1, RMul(RMul(x, x), Rat(1, 6)))))

\* a + b of two vectors, m @ v and a @ b
VAdd(a, b) == <<RAdd(a[1], b[1]), RAdd(a[2], b[2]), RAdd(a[3], b[3])>>
\* the dot product of two triples
Dot(r, c) ==
    RAdd(RAdd(RMul(r[1], c[1]), RMul(r[2], c[2])), RMul(r[3], c[3]))
MatVec(m, v) == <<Dot(m[1], v), Dot(m[2], v), Dot(m[3], v)>>
\* column k of a matrix
Column(b, k) == <<b[1][k], b[2][k], b[3][k]>>
MatMul(a, b) ==
    <<<<Dot(a[1], Column(b, 1)), Dot(a[1], Column(b, 2)),
        Dot(a[1], Column(b, 3))>>,
      <<Dot(a[2], Column(b, 1)), Dot(a[2], Column(b, 2)),
        Dot(a[2], Column(b, 3))>>,
      <<Dot(a[3], Column(b, 1)), Dot(a[3], Column(b, 2)),
        Dot(a[3], Column(b, 3))>>>>
\* np.eye(3)
Eye3 == <<<<R1, R0, R0>>, <<R0, R1, R0>>, <<R0, R0, R1>>>>

rotation_matrix_x(angle) ==
    <<<<R1, R0, R0>>,
      <<R0, Cos(angle), RNeg(Sin(angle))>>,
      <<R0, Sin(angle), Cos(angle)>>>>

rotation_matrix_y(angle) ==
    <<<<Cos(angle), R0, Sin(angle)>>,
      <<R0, R1, R0>>,
      <<RNeg(Sin(angle)), R0, Cos(angle)>>>>

rotation_matrix_z(angle) ==
    <<<<Cos(angle), RNeg(Sin(angle)), R0>>,
      <<Sin(angle), Cos(angle), R0>>,
      <<R0, R0, R1>>>>

\* rz @ ry @ rx
euler_to_rotation_matrix(euler) ==
    MatMul(MatMul(rotation_matrix_z(euler[3]), rotation_matrix_y(euler[2])),
           rotation_matrix_x(euler[1]))

\* ShapeParameters, the defaults of the dataclass
ShapeParameters ==
    [body_length |-> R1, body_width |-> Rat(3, 10), body_height |-> Rat(2, 10),
     spine_segments |-> 3,
     neck_length |-> Rat(25, 100), head_length |-> Rat(2, 10),
     head_width |-> Rat(15, 100), ear_length |-> Rat(8, 100),
     snout_length |-> Rat(1, 10),
     tail_length |-> Rat(4, 10), tail_segments |-> 3,
     front_shoulder_width |-> Rat(25, 100),
     front_upper_leg_length |-> Rat(25, 100),
     front_lower_leg_length |-> Rat(2, 10),
     front_paw_length |-> Rat(8, 100),
     back_hip_width |-> Rat(22, 100),
     back_upper_leg_length |-> Rat(28, 100),
     back_lower_leg_length |-> Rat(22, 100),
     back_paw_length |-> Rat(1, 10),
     scale |-> R1]

\* CatShapeParameters(scale), cat.py:13-59
CatShapeParameters(scale) ==
    [body_length |-> R1, body_width |-> Rat(25, 100),
     body_height |-> Rat(18, 100),
     spine_segments |-> 3,
     neck_length |-> Rat(22, 100), head_length |-> Rat(18, 100),
     head_width |-> Rat(14, 100), ear_length |-> Rat(1, 10),
     snout_length |-> Rat(8, 100),
     tail_length |-> Rat(7, 10), tail_segments |-> 3,
     front_shoulder_width |-> Rat(2, 10),
     front_upper_leg_length |-> Rat(22, 100),
     front_lower_leg_length |-> Rat(18, 100),
     front_paw_length |-> Rat(6, 100),
     back_hip_width |-> Rat(18, 100),
     back_upper_leg_length |-> Rat(26, 100),
     back_lower_leg_length |-> Rat(2, 10),
     back_paw_length |-> Rat(8, 100),
     scale |-> scale]

\* QuadrupedSkeleton.BONES, in list order
BONES ==
    <<<<"ROOT", "SPINE_LOWER">>, <<"SPINE_LOWER", "SPINE_MID">>,
      <<"SPINE_MID", "SPINE_UPPER">>,
      <<"SPINE_UPPER", "NECK">>, <<"NECK", "HEAD">>, <<"HEAD", "NOSE">>,
      <<"HEAD", "LEFT_EAR">>, <<"HEAD", "RIGHT_EAR">>,
      <<"HEAD", "LEFT_EYE">>, <<"HEAD", "RIGHT_EYE">>,
      <<"ROOT", "TAIL_BASE">>, <<"TAIL_BASE", "TAIL_MID">>,
      <<"TAIL_MID", "TAIL_TIP">>,
      <<"SPINE_UPPER", "LEFT_SHOULDER">>,
      <<"LEFT_SHOULDER", "LEFT_FRONT_UPPER">>,
      <<"LEFT_FRONT_UPPER", "LEFT_FRONT_LOWER">>,
      <<"LEFT_FRONT_LOWER", "LEFT_FRONT_PAW">>,
      <<"SPINE_UPPER", "RIGHT_SHOULDER">>,
      <<"RIGHT_SHOULDER", "RIGHT_FRONT_UPPER">>,
      <<"RIGHT_FRONT_UPPER", "RIGHT_FRONT_LOWER">>,
      <<"RIGHT_FRONT_LOWER", "RIGHT_FRONT_PAW">>,
      <<"ROOT", "LEFT_HIP">>, <<"LEFT_HIP", "LEFT_BACK_UPPER">>,
      <<"LEFT_BACK_UPPER", "LEFT_BACK_LOWER">>,
      <<"LEFT_BACK_LOWER", "LEFT_BACK_PAW">>,
      <<"ROOT", "RIGHT_HIP">>, <<"RIGHT_HIP", "RIGHT_BACK_UPPER">>,
      <<"RIGHT_BACK_UPPER", "RIGHT_BACK_LOWER">>,
      <<"RIGHT_BACK_LOWER", "RIGHT_BACK_PAW">>>>

\* Joint.parent of the root
NoParent == "<none>"

\* Joint(joint_type, local_offset): no children, no parent
Joint(local_offset) ==
    [local_offset |-> local_offset, children |-> <<>>, parent |-> NoParent]

\* _add_joint hanging every joint on the root
add_joint_UnderRoot(joints, joint_type, parent, offset) ==
    (joint_type :> [Joint(offset) EXCEPT !.parent = "ROOT"]) @@
    [joints EXCEPT !["ROOT"].children = Append(@, joint_type)]

\* QuadrupedSkeleton._add_joint: the joint map after the call
add_joint(joints, joint_type, parent, offset) ==
    (joint_type :> [Joint(offset) EXCEPT !.parent = parent]) @@
    [joints EXCEPT ![parent].children = Append(@, joint_type)]

\* the _add_joint calls of _build_skeleton in program order, each
\* <<joint type, parent, local offset>>
BuildCalls(s) ==
    LET scale == s.scale
        spine_segment_length == RDiv(s.body_length, RInt(s.spine_segments))
        tail_segment_length == RDiv(s.tail_length, RInt(s.tail_segments))
        m(a, b) == RMul(a, b)
        m3(a, b, c) == RMul(RMul(a, b), c)
    IN
    <<<<"SPINE_LOWER", "ROOT", <<R0, m(spine_segment_length, scale), R0>>>>,
      <<"SPINE_MID", "SPINE_LOWER", <<R0, m(spine_segment_length, scale), R0>>>>,
      <<"SPINE_UPPER", "SPINE_MID", <<R0, m(spine_segment_length, scale), R0>>>>,
      <<"NECK", "SPINE_UPPER",
        <<R0, m3(s.neck_length, Rat(5, 10), scale),
          m3(s.neck_length, Rat(3, 10), scale)>>>>,
      <<"HEAD", "NECK",
        <<R0, m3(s.neck_length, Rat(5, 10), scale),
          m3(s.neck_length, Rat(2, 10), scale)>>>>,
      <<"NOSE", "HEAD",
        <<R0, m(s.snout_length, scale),
          m3(RNeg(s.head_length), Rat(1, 10), scale)>>>>,
      <<"LEFT_EAR", "HEAD",
        <<m3(RNeg(s.head_width), Rat(4, 10), scale), R0,
          m(s.ear_length, scale)>>>>,
      <<"RIGHT_EAR", "HEAD",
        <<m3(s.head_width, Rat(4, 10), scale), R0, m(s.ear_length, scale)>>>>,
      <<"LEFT_EYE", "HEAD",
        <<m3(RNeg(s.head_width), Rat(25, 100), scale),
          m3(s.head_length, Rat(3, 10), scale), R0>>>>,
      <<"RIGHT_EYE", "HEAD",
        <<m3(s.head_width, Rat(25, 100), scale),
          m3(s.head_length, Rat(3, 10), scale), R0>>>>,
      <<"TAIL_BASE", "ROOT",
        <<R0, m3(RNeg(tail_segment_length), Rat(3, 10), scale),
          m3(s.body_height, Rat(3, 10), scale)>>>>,
      <<"TAIL_MID", "TAIL_BASE",
        <<R0, m(RNeg(tail_segment_length), scale),
          m3(tail_segment_length, Rat(2, 10), scale)>>>>,
      <<"TAIL_TIP", "TAIL_MID",
        <<R0, m(RNeg(tail_segment_length), scale),
          m3(tail_segment_length, Rat(1, 10), scale)>>>>,
      <<"LEFT_SHOULDER", "SPINE_UPPER",
        <<m(RNeg(s.front_shoulder_width), scale), R0,
          m3(RNeg(s.body_height), Rat(3, 10), scale)>>>>,
      <<"LEFT_FRONT_UPPER", "LEFT_SHOULDER",
        <<R0, R0, m(RNeg(s.front_upper_leg_length), scale)>>>>,
      <<"LEFT_FRONT_LOWER", "LEFT_FRONT_UPPER",
        <<R0, R0, m(RNeg(s.front_lower_leg_length), scale)>>>>,
      <<"LEFT_FRONT_PAW", "LEFT_FRONT_LOWER",
        <<R0, R0, m(RNeg(s.front_paw_length), scale)>>>>,
      <<"RIGHT_SHOULDER", "SPINE_UPPER",
        <<m(s.front_shoulder_width, scale), R0,
          m3(RNeg(s.body_height), Rat(3, 10), scale)>>>>,
      <<"RIGHT_FRONT_UPPER", "RIGHT_SHOULDER",
        <<R0, R0, m(RNeg(s.front_upper_leg_length), scale)>>>>,
      <<"RIGHT_FRONT_LOWER", "RIGHT_FRONT_UPPER",
        <<R0, R0, m(RNeg(s.front_lower_leg_length), scale)>>>>,
      <<"RIGHT_FRONT_PAW", "RIGHT_FRONT_LOWER",
        <<R0, R0, m(RNeg(s.front_paw_length), scale)>>>>,
      <<"LEFT_HIP", "ROOT",
        <<m(RNeg(s.back_hip_width), scale), R0,
          m3(RNeg(s.body_height), Rat(2, 10), scale)>>>>,
      <<"LEFT_BACK_UPPER", "LEFT_HIP",
        <<R0, m3(RNeg(s.back_upper_leg_length), Rat(2, 10), scale),
          m3(RNeg(s.back_upper_leg_length), Rat(8, 10), scale)>>>>,
      <<"LEFT_BACK_LOWER", "LEFT_BACK_UPPER",
        <<R0, m3(s.back_lower_leg_length, Rat(3, 10), scale),
          m3(RNeg(s.back_lower_leg_length), Rat(8, 10), scale)>>>>,
      <<"LEFT_BACK_PAW", "LEFT_BACK_LOWER",
        <<R0, R0, m(RNeg(s.back_paw_length), scale)>>>>,
      <<"RIGHT_HIP", "ROOT",
        <<m(s.back_hip_width, scale), R0,
          m3(RNeg(s.body_height), Rat(2, 10), scale)>>>>,
      <<"RIGHT_BACK_UPPER", "RIGHT_HIP",
        <<R0, m3(RNeg(s.back_upper_leg_length), Rat(2, 10), scale),
          m3(RNeg(s.back_upper_leg_length), Rat(8, 10), scale)>>>>,
      <<"RIGHT_BACK_LOWER", "RIGHT_BACK_UPPER",
        <<R0, m3(s.back_lower_leg_length, Rat(3, 10), scale),
          m3(RNeg(s.back_lower_leg_length), Rat(8, 10), scale)>>>>,
      <<"RIGHT_BACK_PAW", "RIGHT_BACK_LOWER",
        <<R0, R0, m(RNeg(s.back_paw_length), scale)>>>>>>

RECURSIVE AddJointsFrom(_, _, _)
AddJointsFrom(joints, calls, i) ==
    IF i > Len(calls) THEN joints
    ELSE AddJointsFrom(
             add_joint(joints, calls[i][1], calls[i][2], calls[i][3]),
             calls, i + 1)

\* what "s.body_length / s.spine_segments" raises for a count of 0: in the
\* place of a joint map, a mapping that holds no joint
ZeroDivisionError == [raised |-> "ZeroDivisionError"]

\* _build_skeleton taking every measurement at scale 1
build_skeleton_Unscaled(s) ==
    AddJointsFrom(("ROOT" :> Joint(Zeros3)),
                  BuildCalls([s EXCEPT !.scale = <<1, 1>>]), 1)

\* QuadrupedSkeleton._build_skeleton: the joint map self.joints it leaves,
\* joint type -> [local_offset, children, parent].  The two segment lengths
\* are float / int quotients, which raise ZeroDivisionError for a count of 0.
build_skeleton(s) ==
    IF s.spine_segments = 0 \/ s.tail_segments = 0
    THEN ZeroDivisionError
    ELSE AddJointsFrom(("ROOT" :> Joint(Zeros3)), BuildCalls(s), 1)

\* QuadrupedSkeleton._update_joint_recursive: the _world_position and
\* _world_rotation_matrix it assigns to `joint` and, through the recursion
\* over joint.children, to every joint below it
RECURSIVE update_joint_recursive(_, _, _, _, _)
RECURSIVE UpdateChildren(_, _, _, _, _, _)
RECURSIVE UpdateJointAndChildren(_, _, _, _, _)
UpdateJointAndChildren(jm, rot, joint, world_pos, world_rot) ==
    (joint :> [world_position |-> world_pos,
               world_rotation_matrix |-> world_rot]) @@
    UpdateChildren(jm, rot, jm[joint].children, 1, world_pos, world_rot)

UpdateChildren(jm, rot, children, i, world_pos, world_rot) ==
    IF i > Len(children) THEN <<>>
    ELSE update_joint_recursive(jm, rot, children[i], world_pos, world_rot) @@
         UpdateChildren(jm, rot, children, i + 1, world_pos, world_rot)

\* (the two values are bound before the recursion, so that each is computed
\* once)
update_joint_recursive(jm, rot, joint, parent_world_pos, parent_world_rot) ==
    CHOOSE below \in
        {UpdateJointAndChildren(jm, rot, joint, world_pos, world_rot) :
            world_pos \in
                {VAdd(parent_world_pos,
                      MatVec(parent_world_rot, jm[joint].local_offset))},
            world_rot \in
                {MatMul(parent_world_rot,
                        euler_to_rotation_matrix(rot[joint]))}} : TRUE

\* update_world_positions starting the traversal unrotated, without the
\* global rotation
update_world_positions_IgnoresGlobalRotation(jm, rot, gpos, grot) ==
    update_joint_recursive(jm, rot, "ROOT", gpos, Eye3)

\* QuadrupedSkeleton.update_world_positions: the world position and world
\* rotation matrix of every joint, computed from the joint map, the joint
\* rotations and the global transform
update_world_positions(jm, rot, gpos, grot) ==
    update_joint_recursive(jm, rot, "ROOT", gpos,
                           euler_to_rotation_matrix(grot))

\* the error get_joint_position raises
KeyError == "KeyError"

\* get_joint_position answering the origin for a joint it does not have
get_joint_position_DefaultsToOrigin(jm, world, joint_type) ==
    IF joint_type \in DOMAIN jm
    THEN world[joint_type].world_position
    ELSE Zeros3

\* QuadrupedSkeleton.get_joint_position over the cached world positions
get_joint_position(jm, world, joint_type) ==
    IF joint_type \in DOMAIN jm
    THEN world[joint_type].world_position
    ELSE KeyError

\* QuadrupedSkeleton.get_all_joint_positions
get_all_joint_positions(jm, world) ==
    [jt \in DOMAIN jm |-> world[jt].world_position]

\* QuadrupedSkeleton.get_bone_segments
RECURSIVE BoneSegmentsFrom(_, _, _)
BoneSegmentsFrom(jm, world, i) ==
    IF i > Len(BONES) THEN <<>>
    ELSE (IF BONES[i][1] \in DOMAIN jm /\ BONES[i][2] \in DOMAIN jm
          THEN <<<<world[BONES[i][1]].world_position,
                   world[BONES[i][2]].world_position>>>>
          ELSE <<>>) \o BoneSegmentsFrom(jm, world, i + 1)

get_bone_segments(jm, world) == BoneSegmentsFrom(jm, world, 1)

\* QuadrupedSkeleton.get_bounding_box: positions.min(axis=0), .max(axis=0)
get_bounding_box(jm, world) ==
    LET coord(i) == {world[jt].world_position[i] : jt \in DOMAIN jm}
        least(S) == CHOOSE x \in S : \A y \in S : RLe(x, y)
        most(S) == CHOOSE x \in S : \A y \in S : RLe(y, x)
    IN  <<<<least(coord(1)), least(coord(2)), least(coord(3))>>,
          <<most(coord(1)), most(coord(2)), most(coord(3))>>>>

(***************************************************************************)
(* State.                                                                  *)
(***************************************************************************)
VARIABLES
    motions,         \* the MotionSequence objects, by index
    current_motion,  \* MotionPlayer.current_motion: an index, or NoMotion
    current_time,    \* MotionPlayer.current_time
    is_playing,      \* MotionPlayer.is_playing
    playback_speed,  \* MotionPlayer.playback_speed
    blend_from,      \* MotionPlayer._blend_from: joint -> rotation, or NoBlend
    blend_duration,  \* MotionPlayer._blend_duration
    blend_time,      \* MotionPlayer._blend_time
    has_set_pose,    \* hasattr(skeleton, 'set_pose'): a CatSkeleton or the base
    rotation,        \* Joint.rotation of every joint of the skeleton
    fk_rotation,     \* the joint rotations the cached world positions and
                     \* world rotation matrices were last computed from
    shape,           \* QuadrupedSkeleton.shape, the ShapeParameters object
    joints,          \* QuadrupedSkeleton.joints: joint type -> local offset,
                     \* children and parent of the joint
    global_position, \* QuadrupedSkeleton.global_position
    global_rotation, \* QuadrupedSkeleton.global_rotation
    added,           \* the keyframes handed to add_keyframe, in call order
    call,            \* the last call made: its arguments, the playing flag
                     \* it found and what it returned
    ncalls           \* the number of calls made on the player so far

vars ==
    <<motions, current_motion, current_time, is_playing, playback_speed,
      blend_from, blend_duration, blend_time, has_set_pose, rotation,
      fk_rotation, shape, joints, global_position, global_rotation, added,
      call, ncalls>>

playerVars ==
    <<current_motion, current_time, is_playing, playback_speed,
      blend_from, blend_duration, blend_time>>

\* what no call on a player or a sequence changes once the skeleton is built
buildVars == <<shape, joints, global_position, global_rotation>>

skeletonVars == <<has_set_pose, rotation, fk_rotation, buildVars>>

NoMotion == 0
\* _blend_from is None or a dict; None and the empty dict are both falsy and
\* the code only ever tests truthiness, so both are the empty mapping
NoBlend == <<>>
\* "if self._blend_from"
Truthy(mapping) == DOMAIN mapping # {}

\* MotionPlayer.__init__ on a freshly built skeleton
InitPlayer ==
    /\ current_motion = NoMotion
    /\ current_time = 0
    /\ is_playing = FALSE
    /\ blend_from = NoBlend
    /\ blend_duration = 0
    /\ blend_time = 0

\* QuadrupedSkeleton.__init__: built, rest pose, world positions computed
InitSkeleton ==
    /\ joints = build_skeleton(shape)
    /\ global_position = Zeros3
    /\ global_rotation = Zeros3
    /\ rotation = RestRotation
    /\ fk_rotation = RestRotation

(***************************************************************************)
(* Building and evaluating one sequence: add_keyframe and                  *)
(* get_rotations_at_time on every sequence of up to MaxKeyframes           *)
(* keyframes over the keyframe pool, in every loop mode.                   *)
(***************************************************************************)
\* The keyframe pool: every keyframe time with each of these contents.  The
\* contents cover every easing, a joint with equal and with different values
\* in two keyframes, and keyframes that name different joints.
KeyframeContents ==
    {<<("NECK" :> Vec(0, 0, 0)), "LINEAR">>,
     <<("NECK" :> Vec(0, 0, 0)), "EASE_IN">>,
     <<("NECK" :> Vec(1, 0, 0)), "EASE_OUT">>,
     <<("NECK" :> Vec(1, 0, 0)), "EASE_IN_OUT">>,
     <<("HEAD" :> Vec(0, 0 - 2, 3)), "BOUNCE">>}

KeyframePool ==
    {Keyframe(t, c[1], c[2]) : t \in KeyTimes, c \in KeyframeContents}

InitEval ==
    /\ \E mode \in LoopMode :
          motions = <<MotionSequence("clip", <<>>, mode, NoPose)>>
    /\ playback_speed = 1
    /\ has_set_pose = FALSE
    /\ shape = ShapeParameters
    /\ added = <<>>
    /\ InitPlayer
    /\ InitSkeleton
    /\ call = [op |-> "init"]
    /\ ncalls = 0

AddKeyframe(m, kf) ==
    /\ Len(motions[m].keyframes) < MaxKeyframes
    /\ motions' = [motions EXCEPT ![m] = add_keyframe(motions[m], kf)]
    /\ added' = Append(added, kf)
    /\ call' = [op |-> "add_keyframe"]
    /\ UNCHANGED <<playerVars, skeletonVars, ncalls>>

GetRotationsAtTime(m, time) ==
    /\ call' = [op |-> "get_rotations_at_time", motion |-> m, time |-> time,
                result |-> get_rotations_at_time(motions[m], time)]
    /\ UNCHANGED <<motions, playerVars, skeletonVars, added, ncalls>>

\* get_rotations_at_time changes nothing but what the caller observes, so a
\* behaviour builds a sequence and ends with one observed query.
NextEval ==
    /\ call.op # "get_rotations_at_time"
    /\ \/ \E kf \in KeyframePool : AddKeyframe(1, kf)
       \/ \E time \in QueryTimes : GetRotationsAtTime(1, time)

SpecEval == InitEval /\ [][NextEval]_vars

(***************************************************************************)
(* MotionPlayer, motion.py:183-308, driving one skeleton over a library of *)
(* four sequences: a ONCE clip, a LOOP clip with a known base pose, a      *)
(* PING_PONG clip with an unknown base pose and a one-keyframe clip of     *)
(* duration 0.                                                             *)
(***************************************************************************)
MotionLibrary ==
    <<MotionSequence("nod",
          <<Keyframe(0, ("NECK" :> Vec(0, 0, 0)), "LINEAR"),
            Keyframe(4, ("NECK" :> Vec(1, 0, 0)), "LINEAR")>>,
          "ONCE", NoPose),
      MotionSequence("wag",
          <<Keyframe(0, ("TAIL_BASE" :> Vec(0, 0, 1)), "EASE_IN_OUT"),
            Keyframe(2, ("TAIL_BASE" :> Vec(0, 0, 0 - 1)), "EASE_IN_OUT")>>,
          "LOOP", "standing"),
      MotionSequence("look",
          <<Keyframe(0, ("HEAD" :> Vec(0, 1, 0)), "EASE_OUT"),
            Keyframe(2, ("NECK" :> Vec(0, 2, 0)), "LINEAR")>>,
          "PING_PONG", "no_such_pose"),
      MotionSequence("hold",
          <<Keyframe(0, ("NECK" :> Vec(1, 0, 0)), "LINEAR")>>,
          "ONCE", NoPose)>>

BlendDurations == {0, MaxBlend}
StartTimes == 0..MaxStart
Deltas == 1..MaxDelta
Speeds == 1..MaxSpeed
ScrubTimes == (0 - 1)..MaxPlayTime

Init ==
    /\ motions = MotionLibrary
    /\ playback_speed \in Speeds
    /\ has_set_pose \in BOOLEAN
    /\ shape = IF has_set_pose THEN CatShapeParameters(R1) ELSE ShapeParameters
    /\ added = <<>>
    /\ InitPlayer
    /\ InitSkeleton
    /\ call = [op |-> "init"]
    /\ ncalls = 0

\* set_pose falling back to the standing pose for a name it does not know
set_pose_FallsBackToStanding(rot, pose_name) ==
    IF pose_name \notin PoseNames
    THEN ApplyRotations(reset_pose(rot), Poses("standing"))
    ELSE ApplyRotations(reset_pose(rot), Poses(pose_name))

\* QuadrupedSkeleton.reset_pose then the pose's rotations (cat.py:263-286):
\* the joint rotations after set_pose(pose_name)
set_pose(rot, pose_name) ==
    IF pose_name \notin PoseNames THEN rot
    ELSE ApplyRotations(reset_pose(rot), Poses(pose_name))

\* BlendFrame with the raw fraction as the weight, without ease_in_out
BlendFrame_LinearWeight(rotations, btime) ==
    IF Truthy(blend_from) /\ btime < blend_duration
    THEN LET blend_t == Rat(btime, blend_duration)
         IN  [joint_type \in DOMAIN rotations |->
                 IF joint_type \in DOMAIN blend_from
                 THEN Lerp(blend_from[joint_type], rotations[joint_type],
                           blend_t)
                 ELSE rotations[joint_type]]
    ELSE rotations

\* motion.py:289-296: the resolved rotations after the blend toward the
\* snapshot, at blend-elapsed time btime
BlendFrame(rotations, btime) ==
    IF Truthy(blend_from) /\ btime < blend_duration
    THEN LET blend_t == ease_in_out(Rat(btime, blend_duration))
         IN  [joint_type \in DOMAIN rotations |->
                 IF joint_type \in DOMAIN blend_from
                 THEN Lerp(blend_from[joint_type], rotations[joint_type],
                           blend_t)
                 ELSE rotations[joint_type]]
    ELSE rotations

\* MotionPlayer._apply_current_frame at playback time `time` and
\* blend-elapsed time `btime`: the joint rotations and the sequences after
\* it.  The blend writes into the mapping get_rotations_at_time returned;
\* when that mapping is the first keyframe's own dict (duration 0) the
\* keyframe is rewritten.
ApplyCurrentFrame(time, btime) ==
    IF current_motion = NoMotion
    THEN [rotation |-> rotation, fk_rotation |-> fk_rotation,
          motions |-> motions]
    ELSE LET seq == motions[current_motion]
             rotations == BlendFrame(get_rotations_at_time(seq, time), btime)
             rot == ApplyRotations(rotation, rotations)
         IN  [rotation |-> rot,
              fk_rotation |-> rot,
              motions |->
                  IF ReturnsKeyframeDict(seq)
                  THEN [motions EXCEPT
                           ![current_motion].keyframes[1].rotations = rotations]
                  ELSE motions]

\* play arming the blend only while the player is playing
Play_BlendOnlyWhenPlaying(m, blend, start_time) ==
    /\ ncalls < MaxCalls
    /\ IF blend > 0 /\ is_playing
       THEN /\ blend_from' = rotation
            /\ blend_duration' = blend
            /\ blend_time' = 0
       ELSE /\ blend_from' = NoBlend
            /\ UNCHANGED <<blend_duration, blend_time>>
    /\ current_motion' = m
    /\ current_time' = start_time
    /\ is_playing' = TRUE
    /\ IF motions[m].base_pose # NoPose /\ has_set_pose
       THEN /\ rotation' = set_pose(rotation, motions[m].base_pose)
            /\ fk_rotation' =
                  IF motions[m].base_pose \in PoseNames
                  THEN rotation' ELSE fk_rotation
       ELSE UNCHANGED <<rotation, fk_rotation>>
    /\ call' = [op |-> "play", was_playing |-> is_playing, motion |-> m,
                blend_duration |-> blend]
    /\ ncalls' = ncalls + 1
    /\ UNCHANGED <<motions, playback_speed, has_set_pose, buildVars, added>>

\* MotionPlayer.play
Play(m, blend, start_time) ==
    /\ ncalls < MaxCalls
    /\ IF blend > 0 /\ current_motion # NoMotion
       THEN /\ blend_from' = rotation
            /\ blend_duration' = blend
            /\ blend_time' = 0
       ELSE /\ blend_from' = NoBlend
            /\ UNCHANGED <<blend_duration, blend_time>>
    /\ current_motion' = m
    /\ current_time' = start_time
    /\ is_playing' = TRUE
    /\ IF motions[m].base_pose # NoPose /\ has_set_pose
       THEN /\ rotation' = set_pose(rotation, motions[m].base_pose)
            /\ fk_rotation' =
                  IF motions[m].base_pose \in PoseNames
                  THEN rotation' ELSE fk_rotation
       ELSE UNCHANGED <<rotation, fk_rotation>>
    /\ call' = [op |-> "play", was_playing |-> is_playing, motion |-> m,
                blend_duration |-> blend]
    /\ ncalls' = ncalls + 1
    /\ UNCHANGED <<motions, playback_speed, has_set_pose, buildVars, added>>

\* stop rewinding the playback time
Stop_Rewinds ==
    /\ ncalls < MaxCalls
    /\ is_playing' = FALSE
    /\ current_time' = 0
    /\ call' = [op |-> "stop", was_playing |-> is_playing]
    /\ ncalls' = ncalls + 1
    /\ UNCHANGED <<motions, current_motion, playback_speed,
                   blend_from, blend_duration, blend_time, skeletonVars, added>>

\* stop also dropping the current sequence
Stop_ClearsSequence ==
    /\ ncalls < MaxCalls
    /\ is_playing' = FALSE
    /\ current_motion' = NoMotion
    /\ call' = [op |-> "stop", was_playing |-> is_playing]
    /\ ncalls' = ncalls + 1
    /\ UNCHANGED <<motions, current_time, playback_speed,
                   blend_from, blend_duration, blend_time, skeletonVars, added>>

\* MotionPlayer.stop
Stop ==
    /\ ncalls < MaxCalls
    /\ is_playing' = FALSE
    /\ call' = [op |-> "stop", was_playing |-> is_playing]
    /\ ncalls' = ncalls + 1
    /\ UNCHANGED <<motions, current_motion, current_time, playback_speed,
                   blend_from, blend_duration, blend_time, skeletonVars, added>>

\* update applying the frame only while still playing
Update_SkipsFrameWhenFinished(delta_time) ==
    /\ ncalls < MaxCalls
    /\ ncalls' = ncalls + 1
    /\ IF ~is_playing \/ current_motion = NoMotion
       THEN /\ call' = [op |-> "update", was_playing |-> is_playing,
                        ret |-> FALSE]
            /\ UNCHANGED <<motions, playerVars, skeletonVars, added>>
       ELSE /\ current_time + delta_time * playback_speed <= MaxPlayTime
            /\ current_time' = current_time + delta_time * playback_speed
            /\ blend_time' =
                  IF Truthy(blend_from) /\ blend_time < blend_duration
                  THEN blend_time + delta_time
                  ELSE blend_time
            /\ is_playing' =
                  ~(/\ motions[current_motion].loop_mode = "ONCE"
                    /\ current_time' >= duration(motions[current_motion]))
            /\ IF is_playing'
               THEN LET after == ApplyCurrentFrame(current_time', blend_time')
                    IN  /\ rotation' = after.rotation
                        /\ fk_rotation' = after.fk_rotation
                        /\ motions' = after.motions
               ELSE UNCHANGED <<rotation, fk_rotation, motions>>
            /\ call' = [op |-> "update", was_playing |-> is_playing,
                        ret |-> is_playing']
            /\ UNCHANGED <<current_motion, playback_speed, blend_from,
                           blend_duration, has_set_pose, buildVars, added>>

\* update holding a ONCE sequence at its last frame instead of finishing
UpdateClock_HoldsLastFrame(delta_time) ==
    IF ~is_playing \/ current_motion = NoMotion
    THEN /\ call' = [op |-> "update", was_playing |-> is_playing,
                     ret |-> FALSE]
         /\ UNCHANGED <<current_time, blend_time, is_playing>>
    ELSE /\ current_time' =
               IF /\ motions[current_motion].loop_mode = "ONCE"
                  /\ current_time + delta_time * playback_speed
                        >= duration(motions[current_motion])
               THEN duration(motions[current_motion])
               ELSE current_time + delta_time * playback_speed
         /\ blend_time' =
               IF Truthy(blend_from) /\ blend_time < blend_duration
               THEN blend_time + delta_time
               ELSE blend_time
         /\ is_playing' = TRUE
         /\ call' = [op |-> "update", was_playing |-> is_playing,
                     ret |-> is_playing']

\* update finishing at the end of the sequence whatever its loop mode
UpdateClock_FinishesEveryMode(delta_time) ==
    IF ~is_playing \/ current_motion = NoMotion
    THEN /\ call' = [op |-> "update", was_playing |-> is_playing,
                     ret |-> FALSE]
         /\ UNCHANGED <<current_time, blend_time, is_playing>>
    ELSE /\ current_time' = current_time + delta_time * playback_speed
         /\ blend_time' =
               IF Truthy(blend_from) /\ blend_time < blend_duration
               THEN blend_time + delta_time
               ELSE blend_time
         /\ is_playing' =
               ~(current_time' >= duration(motions[current_motion]))
         /\ call' = [op |-> "update", was_playing |-> is_playing,
                     ret |-> is_playing']

\* update returning early only when no sequence is set
UpdateClock_RunsWhileStopped(delta_time) ==
    IF current_motion = NoMotion
    THEN /\ call' = [op |-> "update", was_playing |-> is_playing,
                     ret |-> FALSE]
         /\ UNCHANGED <<current_time, blend_time, is_playing>>
    ELSE /\ current_time' = current_time + delta_time * playback_speed
         /\ blend_time' =
               IF Truthy(blend_from) /\ blend_time < blend_duration
               THEN blend_time + delta_time
               ELSE blend_time
         /\ is_playing' =
               (/\ is_playing
                /\ ~(/\ motions[current_motion].loop_mode = "ONCE"
                     /\ current_time' >= duration(motions[current_motion])))
         /\ call' = [op |-> "update", was_playing |-> is_playing,
                     ret |-> is_playing']

\* MotionPlayer.update, motion.py:256-268 and 273: the early return, the
\* advance of the playback time and of the blend-elapsed time, the ONCE
\* completion check and the value returned
UpdateClock(delta_time) ==
    IF ~is_playing \/ current_motion = NoMotion
    THEN /\ call' = [op |-> "update", was_playing |-> is_playing,
                     ret |-> FALSE]
         /\ UNCHANGED <<current_time, blend_time, is_playing>>
    ELSE /\ current_time' = current_time + delta_time * playback_speed
         /\ blend_time' =
               IF Truthy(blend_from) /\ blend_time < blend_duration
               THEN blend_time + delta_time
               ELSE blend_time
         /\ is_playing' =
               ~(/\ motions[current_motion].loop_mode = "ONCE"
                 /\ current_time' >= duration(motions[current_motion]))
         /\ call' = [op |-> "update", was_playing |-> is_playing,
                     ret |-> is_playing']

\* MotionPlayer.update (motion.py:246-273): what one call does to the
\* player, the skeleton and the sequences
UpdatePlayer(delta_time) ==
    /\ UpdateClock(delta_time)
    /\ IF ~is_playing \/ current_motion = NoMotion
       THEN UNCHANGED <<rotation, fk_rotation, motions>>
       ELSE LET after == ApplyCurrentFrame(current_time', blend_time')
            IN  /\ rotation' = after.rotation
                /\ fk_rotation' = after.fk_rotation
                /\ motions' = after.motions
    /\ UNCHANGED <<current_motion, playback_speed, blend_from,
                   blend_duration, has_set_pose, buildVars, added>>

\* MotionPlayer.update as one of at most MaxCalls calls, the playback time
\* kept within MaxPlayTime
Update(delta_time) ==
    /\ ncalls < MaxCalls
    /\ ncalls' = ncalls + 1
    /\ is_playing /\ current_motion # NoMotion
       => current_time + delta_time * playback_speed <= MaxPlayTime
    /\ UpdatePlayer(delta_time)

\* set_time running update's stop-on-completion check
SetTime_StopsAtEnd(time) ==
    /\ ncalls < MaxCalls
    /\ ncalls' = ncalls + 1
    /\ current_time' = time
    /\ is_playing' =
          (/\ is_playing
           /\ ~(/\ current_motion # NoMotion
                /\ motions[current_motion].loop_mode = "ONCE"
                /\ time >= duration(motions[current_motion])))
    /\ LET after == ApplyCurrentFrame(time, blend_time)
       IN  /\ rotation' = after.rotation
           /\ fk_rotation' = after.fk_rotation
           /\ motions' = after.motions
    /\ call' = [op |-> "set_time", was_playing |-> is_playing,
                time |-> time]
    /\ UNCHANGED <<current_motion, playback_speed, blend_from,
                   blend_duration, blend_time, has_set_pose, buildVars, added>>

\* MotionPlayer.set_time
SetTime(time) ==
    /\ ncalls < MaxCalls
    /\ ncalls' = ncalls + 1
    /\ current_time' = time
    /\ LET after == ApplyCurrentFrame(time, blend_time)
       IN  /\ rotation' = after.rotation
           /\ fk_rotation' = after.fk_rotation
           /\ motions' = after.motions
    /\ call' = [op |-> "set_time", was_playing |-> is_playing,
                time |-> time]
    /\ UNCHANGED <<current_motion, is_playing, playback_speed, blend_from,
                   blend_duration, blend_time, has_set_pose, buildVars, added>>

Next ==
    \/ \E m \in DOMAIN motions, blend \in BlendDurations,
          start_time \in StartTimes : Play(m, blend, start_time)
    \/ Stop
    \/ \E delta_time \in Deltas : Update(delta_time)
    \/ \E time \in ScrubTimes : SetTime(time)

Spec == Init /\ [][Next]_vars

(***************************************************************************)
(* The skeleton on its own, skeleton.py:250-584 and cat.py:263-330, with   *)
(* generate_motion_frames (motion.py:311-347) and an unblended player      *)
(* driving it.  The cached world positions and world rotation matrices     *)
(* are written only by update_world_positions, which recomputes all of     *)
(* them from the joint map, the joint rotations and the global transform;  *)
(* the global transform changes only in set_global_transform, which        *)
(* recomputes at once.  The cache is therefore what                        *)
(* update_world_positions yields on fk_rotation.                           *)
(***************************************************************************)
\* calls made on one skeleton in a behaviour
MaxSkelCalls == 2
\* the slowest frame rate handed to generate_motion_frames is one frame
\* every MaxFrameStep ticks
MaxFrameStep == 3

\* Joint._world_position and Joint._world_rotation_matrix of every joint
World ==
    update_world_positions(joints, fk_rotation, global_position,
                           global_rotation)

\* a joint type that is not a key of the joint map
UnknownJoint == "WHISKERS"
\* a pose name that is not in the pose library
UnknownPose == "no_such_pose"
\* an argument left at its default None
None == "<None>"

\* the shapes skeletons are built from: the defaults, and a two-segment
\* spine at twice the size
ShapePool ==
    {ShapeParameters,
     [ShapeParameters EXCEPT !.spine_segments = 2, !.scale = RInt(2)]}
CatScales == {R1, Rat(1, 2)}
ScaleValues == {R1, RInt(2)}
RotatedJoints == {"ROOT", "NECK", UnknownJoint}
RotationValues == {Vec(0, 0, 1), <<Rat(1, 2), R0, R0>>}
GlobalPositions == {None, Vec(1, 0, 0 - 2)}
GlobalRotations == {None, Vec(0, 1, 0)}
PoseArgs == PoseNames \cup {UnknownPose}
PoseFractions == {Rat(1, 2)}
QueriedJoints == {"HEAD", UnknownJoint}
\* fps, in frames per tick
FrameRates == {Rat(1, 1), Rat(1, MaxFrameStep)}
\* <<fps, include_base_pose>>: every rate with the default True, the slowest
\* rate with False as well
FrameRequests ==
    {<<fps, TRUE>> : fps \in FrameRates} \cup {<<Rat(1, MaxFrameStep), FALSE>>}

InitFK ==
    /\ motions = MotionLibrary
    /\ playback_speed = 1
    /\ has_set_pose \in BOOLEAN
    /\ IF has_set_pose
       THEN \E scale \in CatScales : shape = CatShapeParameters(scale)
       ELSE shape \in ShapePool
    /\ added = <<>>
    /\ InitPlayer
    /\ InitSkeleton
    /\ call = [op |-> "init"]
    /\ ncalls = 0

\* set_joint_rotation recomputing the world positions before it returns
SetJointRotation_Recomputes(joint_type, value) ==
    /\ rotation' = set_joint_rotation(rotation, joint_type, value)
    /\ fk_rotation' = rotation'
    /\ call' = [op |-> "set_joint_rotation", joint_type |-> joint_type,
                rotation |-> value]
    /\ UNCHANGED <<has_set_pose, buildVars>>

\* QuadrupedSkeleton.set_joint_rotation
SetJointRotation(joint_type, value) ==
    /\ rotation' = set_joint_rotation(rotation, joint_type, value)
    /\ call' = [op |-> "set_joint_rotation", joint_type |-> joint_type,
                rotation |-> value]
    /\ UNCHANGED <<has_set_pose, fk_rotation, buildVars>>

\* QuadrupedSkeleton.update_world_positions
UpdateWorldPositions ==
    /\ fk_rotation' = rotation
    /\ call' = [op |-> "update_world_positions"]
    /\ UNCHANGED <<has_set_pose, rotation, buildVars>>

\* QuadrupedSkeleton.reset_pose
ResetPose ==
    /\ rotation' = reset_pose(rotation)
    /\ fk_rotation' = rotation'
    /\ call' = [op |-> "reset_pose", after |-> call.op,
                was_posed |-> fk_rotation # RestRotation]
    /\ UNCHANGED <<has_set_pose, buildVars>>

\* QuadrupedSkeleton.set_global_transform
SetGlobalTransform(position, rot) ==
    /\ global_position' = IF position # None THEN position ELSE global_position
    /\ global_rotation' = IF rot # None THEN rot ELSE global_rotation
    /\ fk_rotation' = rotation
    /\ call' = [op |-> "set_global_transform"]
    /\ UNCHANGED <<has_set_pose, rotation, shape, joints>>

\* CatSkeleton.set_pose
SetPose(pose_name) ==
    /\ has_set_pose
    /\ rotation' = set_pose(rotation, pose_name)
    /\ fk_rotation' = IF pose_name \in PoseNames THEN rotation' ELSE fk_rotation
    /\ call' = [op |-> "set_pose", pose_name |-> pose_name,
                ret |-> pose_name \in PoseNames]
    /\ UNCHANGED <<has_set_pose, buildVars>>

\* CatSkeleton.interpolate_pose: the joint rotations after the call
interpolate_pose(rot, pose_name_a, pose_name_b, t) ==
    IF pose_name_a \notin PoseNames \/ pose_name_b \notin PoseNames THEN rot
    ELSE LET pose_a == Poses(pose_name_a)
             pose_b == Poses(pose_name_b)
             all_joints == DOMAIN pose_a \cup DOMAIN pose_b
         IN  ApplyRotations(reset_pose(rot),
                 [joint_type \in all_joints |->
                     Lerp(RotOf(pose_a, joint_type), RotOf(pose_b, joint_type),
                          t)])

\* CatSkeleton.interpolate_pose
InterpolatePose(pose_name_a, pose_name_b, t) ==
    /\ has_set_pose
    /\ rotation' = interpolate_pose(rotation, pose_name_a, pose_name_b, t)
    /\ fk_rotation' =
          IF pose_name_a \in PoseNames /\ pose_name_b \in PoseNames
          THEN rotation' ELSE fk_rotation
    /\ call' = [op |-> "interpolate_pose", pose_name_a |-> pose_name_a,
                pose_name_b |-> pose_name_b, t |-> t,
                ret |-> pose_name_a \in PoseNames /\ pose_name_b \in PoseNames]
    /\ UNCHANGED <<has_set_pose, buildVars>>

\* QuadrupedSkeleton.get_joint_position
GetJointPosition(joint_type) ==
    /\ call' = [op |-> "get_joint_position", joint_type |-> joint_type,
                ret |-> get_joint_position(joints, World, joint_type)]
    /\ UNCHANGED skeletonVars

\* QuadrupedSkeleton.get_bone_segments
GetBoneSegments ==
    /\ call' = [op |-> "get_bone_segments",
                ret |-> get_bone_segments(joints, World)]
    /\ UNCHANGED skeletonVars

\* an assignment to shape.scale after the skeleton is built
SetShapeScale(scale) ==
    /\ shape' = [shape EXCEPT !.scale = scale]
    /\ call' = [op |-> "set_scale"]
    /\ UNCHANGED <<has_set_pose, rotation, fk_rotation, joints,
                   global_position, global_rotation>>

\* generate_motion_frames, the loop "for i in range(frame_count)" from frame
\* i on: the frames appended and the joint rotations at the end.  The
\* player is new, so no blend is active and set_time writes the resolved
\* rotations.
RECURSIVE SampleFrames(_, _, _, _, _)
SampleFrames(rot, motion, i, frame_count, delta) ==
    IF i >= frame_count THEN [frames |-> <<>>, rotation |-> rot]
    ELSE LET time == i * delta
             after == ApplyRotations(rot, get_rotations_at_time(motion, time))
             rest == SampleFrames(after, motion, i + 1, frame_count, delta)
         IN  [frames |->
                  <<get_all_joint_positions(joints,
                        update_world_positions(joints, after, global_position,
                                               global_rotation))>>
                  \o rest.frames,
              rotation |-> rest.rotation]

\* generate_motion_frames stopping one frame early
generate_motion_frames_NoFinalFrame(rot, motion, fps, include_base_pose) ==
    LET played == IF motion.base_pose # NoPose /\ has_set_pose
                  THEN set_pose(rot, motion.base_pose)
                  ELSE rot
        frame_count == IntDiv(duration(motion) * fps[1], fps[2])
        delta == fps[2] \div fps[1]
    IN  SampleFrames(played, motion, 0, frame_count, delta)

\* generate_motion_frames(skeleton, motion, fps, include_base_pose): the
\* frames returned and the joint rotations it leaves.  The base pose is
\* applied before the player is started when include_base_pose is set, and
\* by play in every case (motion.py:237-239).
generate_motion_frames(rot, motion, fps, include_base_pose) ==
    LET posed == IF include_base_pose /\ motion.base_pose # NoPose
                    /\ has_set_pose
                 THEN set_pose(rot, motion.base_pose)
                 ELSE rot
        frame_count == IntDiv(duration(motion) * fps[1], fps[2]) + 1
        delta == fps[2] \div fps[1]
        played == IF motion.base_pose # NoPose /\ has_set_pose
                  THEN set_pose(posed, motion.base_pose)
                  ELSE posed
    IN  SampleFrames(played, motion, 0, frame_count, delta)

GenerateMotionFrames(m, fps, include_base_pose) ==
    /\ \E out \in {generate_motion_frames(rotation, motions[m], fps,
                                          include_base_pose)} :
          /\ rotation' = out.rotation
          /\ fk_rotation' = out.rotation
          /\ call' = [op |-> "generate_motion_frames", motion |-> m,
                      fps |-> fps, include_base_pose |-> include_base_pose,
                      ret |-> out.frames]
    /\ UNCHANGED <<has_set_pose, buildVars>>

\* the skeleton's own operations; the two getters change nothing but what
\* the caller observes, so a behaviour ends with the one observed
SkeletonCall ==
    \/ \E joint_type \in RotatedJoints, value \in RotationValues :
          SetJointRotation(joint_type, value)
    \/ UpdateWorldPositions
    \/ ResetPose
    \/ \E position \in GlobalPositions, rot \in GlobalRotations :
          SetGlobalTransform(position, rot)
    \/ \E pose_name \in PoseArgs : SetPose(pose_name)
    \/ \E a \in PoseArgs, b \in PoseArgs, t \in PoseFractions :
          InterpolatePose(a, b, t)
    \/ \E joint_type \in QueriedJoints : GetJointPosition(joint_type)
    \/ GetBoneSegments
    \/ \E scale \in ScaleValues : SetShapeScale(scale)
    \/ \E m \in DOMAIN motions, request \in FrameRequests :
          GenerateMotionFrames(m, request[1], request[2])

\* up to MaxSkelCalls calls on the skeleton and its player, then possibly
\* one closing reset_pose
NextFK ==
    /\ call.op \notin {"get_joint_position", "get_bone_segments"}
    /\ \/ /\ ncalls < MaxSkelCalls
          /\ SkeletonCall
          /\ ncalls' = ncalls + 1
          /\ UNCHANGED <<motions, playerVars, added>>
       \/ /\ ncalls < MaxSkelCalls
          /\ \/ \E m \in DOMAIN motions : Play(m, 0, 0)
             \/ \E delta_time \in Deltas : Update(delta_time)
             \/ \E time \in ScrubTimes : SetTime(time)
       \/ /\ ncalls = MaxSkelCalls
          /\ ResetPose
          /\ ncalls' = ncalls + 1
          /\ UNCHANGED <<motions, playerVars, added>>

SpecFK == InitFK /\ [][NextFK]_vars

(***************************************************************************)
(* Construction on its own, skeleton.py:250-266: QuadrupedSkeleton(shape)  *)
(* for shapes with every segment count from 0 and with zero and negative   *)
(* measurements.  Before the call there is no joint map.                   *)
(***************************************************************************)
MaxSegments == 3
BuildShapes ==
    {[ShapeParameters EXCEPT !.spine_segments = spine,
                             !.tail_segments = tail,
                             !.body_length = body,
                             !.tail_length = RMul(body, Rat(4, 10)),
                             !.back_paw_length = RMul(body, Rat(1, 10)),
                             !.scale = scale] :
        spine \in 0..MaxSegments, tail \in 0..MaxSegments,
        body \in {R1, R0, RInt(0 - 1)}, scale \in {R1, RInt(0 - 2)}}

InitBuild ==
    /\ shape \in BuildShapes
    /\ joints = <<>>
    /\ global_position = Zeros3
    /\ global_rotation = Zeros3
    /\ rotation = <<>>
    /\ fk_rotation = <<>>
    /\ motions = <<>>
    /\ playback_speed = 1
    /\ has_set_pose = FALSE
    /\ added = <<>>
    /\ InitPlayer
    /\ call = [op |-> "new"]
    /\ ncalls = 0

\* QuadrupedSkeleton.__init__: _build_skeleton then update_world_positions.
\* When _build_skeleton raises, the root is in the joint map already.
Construct ==
    /\ call.op = "new"
    /\ \E built \in {build_skeleton(shape)} :
          IF built = ZeroDivisionError
          THEN /\ joints' = ("ROOT" :> Joint(Zeros3))
               /\ call' = [op |-> "init", raised |-> built.raised]
               /\ UNCHANGED <<rotation, fk_rotation>>
          ELSE /\ joints' = built
               /\ rotation' = [j \in DOMAIN built |-> Zeros3]
               /\ fk_rotation' = rotation'
               /\ call' = [op |-> "init"]
    /\ UNCHANGED <<shape, global_position, global_rotation, has_set_pose,
                   motions, playerVars, added, ncalls>>

NextBuild == Construct

SpecBuild == InitBuild /\ [][NextBuild]_vars

(***************************************************************************)
(* The easing functions on their own, motion.py:33-66: each function       *)
(* applied to every t = k / EaseGrid in [0, 1].                            *)
(***************************************************************************)
EaseGrid == 24
EaseInputs == {Rat(k, EaseGrid) : k \in 0..EaseGrid}

InitEase ==
    /\ motions = <<>>
    /\ playback_speed = 1
    /\ has_set_pose = FALSE
    /\ shape = ShapeParameters
    /\ added = <<>>
    /\ InitPlayer
    /\ InitSkeleton
    /\ call = [op |-> "init"]
    /\ ncalls = 0

\* EASING_FUNCTIONS[easing](t)
Ease(easing, t) ==
    /\ call' = [op |-> "ease", easing |-> easing, t |-> t,
                ret |-> EASING_FUNCTIONS(easing, t)]
    /\ UNCHANGED <<motions, playerVars, skeletonVars, added, ncalls>>

NextEase == \E easing \in EaseType, t \in EaseInputs : Ease(easing, t)

SpecEase == InitEase /\ [][NextEase]_vars

(***************************************************************************)
(* One player on a freshly built skeleton that plays one sequence without  *)
(* a blend and is then driven by update and set_time only: the histories   *)
(* scrubbing is compared over.                                             *)
(***************************************************************************)
NextScrub ==
    \/ /\ current_motion = NoMotion
       /\ \E m \in DOMAIN motions, start_time \in StartTimes :
             Play(m, 0, start_time)
    \/ /\ current_motion # NoMotion
       /\ \E delta_time \in Deltas : Update(delta_time)
    \/ /\ current_motion # NoMotion
       /\ \E time \in ScrubTimes : SetTime(time)

SpecScrub == Init /\ [][NextScrub]_vars

(***************************************************************************)
(* A player that plays ONCE sequences and whose caller keeps calling       *)
(* update: play, stop and set_time are among at most MaxCalls calls, the   *)
(* update calls are not counted and never cease (the frame loop of a       *)
(* caller, one update per frame).                                          *)
(***************************************************************************)
OnceMotions == {m \in DOMAIN motions : motions[m].loop_mode = "ONCE"}

FrameUpdate == \E delta_time \in Deltas :
                   UpdatePlayer(delta_time) /\ UNCHANGED ncalls

NextOnce ==
    \/ \E m \in OnceMotions, blend \in BlendDurations,
          start_time \in StartTimes : Play(m, blend, start_time)
    \/ Stop
    \/ FrameUpdate
    \/ \E time \in ScrubTimes : SetTime(time)

\* the variables update's clock writes
clockVars == <<call, current_time, blend_time, is_playing>>

\* a step of NextOnce is an update call exactly when it is a step of
\* update's clock, which is what the fairness condition is stated on
SpecOnce ==
    /\ Init
    /\ [][NextOnce]_vars
    /\ WF_clockVars(\E delta_time \in Deltas : UpdateClock(delta_time))

(***************************************************************************)
(* Claims about get_rotations_at_time, checked under SpecEval.             *)
(***************************************************************************)
TheSeq == motions[1]
Kfs == TheSeq.keyframes
Queried == call.op = "get_rotations_at_time"

\* the keyframe at index i is the earliest in the list among those at its time
FirstAtItsTime(i) == \A k \in 1..(i - 1) : Kfs[k].time # Kfs[i].time

\* the result carries exactly the keyframe's rotation for each of its joints
ReturnsRotationsOf(i) ==
    \A j \in DOMAIN Kfs[i].rotations :
        j \in DOMAIN call.result /\ call.result[j] = Kfs[i].rotations[j]

\* C1 as stated: in every loop mode a query at the time of any keyframe,
\* the last one and tied ones included, returns that keyframe's rotations.
C1_AsStated ==
    Queried =>
        \A i \in 1..Len(Kfs) :
            Kfs[i].time = call.time => ReturnsRotationsOf(i)

\* C1 amended: a query at the time of a keyframe returns that keyframe's
\* rotations when the keyframe is the earliest in the list at its time and,
\* in LOOP mode with a positive duration, its time is below the duration
\* (a LOOP query at the duration wraps to time 0).
C1_ExactAtKeyframe ==
    Queried =>
        \A i \in 1..Len(Kfs) :
            /\ Kfs[i].time = call.time
            /\ FirstAtItsTime(i)
            /\ ~(/\ TheSeq.loop_mode = "LOOP"
                 /\ duration(TheSeq) > 0
                 /\ Kfs[i].time = duration(TheSeq))
            => ReturnsRotationsOf(i)

\* a PING_PONG query at the time of the last keyframe (the duration), whose
\* rotations differ from the first keyframe's
C1_Witness ==
    /\ Queried
    /\ Len(Kfs) = 2
    /\ TheSeq.loop_mode = "PING_PONG"
    /\ Kfs[2].time = call.time
    /\ Kfs[1].time < Kfs[2].time
    /\ Kfs[1].rotations # Kfs[2].rotations
    /\ call.result = Kfs[2].rotations

\* C2: a query whose remapped time lies strictly between two keyframes
\* adjacent in the list returns, for the union of their joints, the blend
\* prev*(1-e) + next*e with e the easing of prev at the local fraction; the
\* concrete cases NECK 0 -> 1 at the midpoint give 1/2 (LINEAR) and 1/4
\* (EASE_IN).
C2_Interpolation ==
    (Queried /\ duration(TheSeq) > 0) =>
        LET t == RemapTime(TheSeq.loop_mode, call.time, duration(TheSeq))
        IN  \A i \in 1..(Len(Kfs) - 1) :
                (Kfs[i].time < t /\ t < Kfs[i + 1].time) =>
                    LET prev == Kfs[i]
                        next == Kfs[i + 1]
                        frac == Rat(t - prev.time, next.time - prev.time)
                        e == CASE prev.easing = "LINEAR" -> frac
                               [] prev.easing = "EASE_IN" -> RMul(frac, frac)
                               [] OTHER -> EASING_FUNCTIONS(prev.easing, frac)
                    IN  /\ DOMAIN call.result =
                              DOMAIN prev.rotations \cup DOMAIN next.rotations
                        /\ \A j \in DOMAIN call.result :
                              call.result[j] =
                                  Lerp(RotOf(prev.rotations, j),
                                       RotOf(next.rotations, j), e)
                        /\ (/\ prev.easing \in {"LINEAR", "EASE_IN"}
                            /\ prev.rotations = ("NECK" :> Vec(0, 0, 0))
                            /\ next.rotations = ("NECK" :> Vec(1, 0, 0))
                            /\ 2 * t = prev.time + next.time)
                           => call.result =
                                ("NECK" :>
                                   <<IF prev.easing = "LINEAR" THEN Rat(1, 2)
                                     ELSE Rat(1, 4), R0, R0>>)

\* the EASE_IN example is queried, and its result is 1/4 on the X axis
C2_Witness ==
    /\ Queried
    /\ Len(Kfs) = 2
    /\ Kfs[1] = Keyframe(0, ("NECK" :> Vec(0, 0, 0)), "EASE_IN")
    /\ Kfs[2].rotations = ("NECK" :> Vec(1, 0, 0))
    /\ Kfs[2].easing = "EASE_OUT"
    /\ 2 * call.time = Kfs[2].time
    /\ call.time > 0
    /\ call.result = ("NECK" :> <<Rat(1, 4), R0, R0>>)

\* C3: in LOOP mode with a positive duration, the result at any time,
\* negative times and multiples of the duration included, is the result one
\* duration later.
C3_LoopPeriodic ==
    (Queried /\ TheSeq.loop_mode = "LOOP" /\ duration(TheSeq) > 0) =>
        call.result =
            get_rotations_at_time(TheSeq, call.time + duration(TheSeq))

\* a LOOP query at a negative time that lands between two keyframes
C3_Witness ==
    /\ Queried
    /\ TheSeq.loop_mode = "LOOP"
    /\ duration(TheSeq) > 0
    /\ call.time < 0
    /\ call.time % duration(TheSeq) # 0
    /\ call.result # Kfs[1].rotations
    /\ call.result # Kfs[Len(Kfs)].rotations

\* C4: in PING_PONG mode with a positive duration, the result at
\* duration + x is the result at duration - x for 0 <= x <= duration.
C4_PingPongMirror ==
    (Queried /\ TheSeq.loop_mode = "PING_PONG" /\ duration(TheSeq) > 0) =>
        LET x == call.time - duration(TheSeq)
        IN  (0 <= x /\ x <= duration(TheSeq)) =>
                call.result =
                    get_rotations_at_time(TheSeq, duration(TheSeq) - x)

\* a PING_PONG query in the backward half-cycle, off the midpoint, whose
\* result is an interpolated pose
C4_Witness ==
    /\ Queried
    /\ TheSeq.loop_mode = "PING_PONG"
    /\ Len(Kfs) = 2
    /\ Kfs[1].time = 0
    /\ Kfs[1].easing = "EASE_IN"
    /\ Kfs[2].rotations = ("NECK" :> Vec(1, 0, 0))
    /\ call.time = duration(TheSeq) + 1
    /\ duration(TheSeq) > 2
    /\ call.result # Kfs[1].rotations
    /\ call.result # Kfs[2].rotations

\* C5: in ONCE mode a query beyond the duration returns the result at the
\* duration, and a query before time 0 returns the result at time 0.
C5_OnceClamped ==
    (Queried /\ TheSeq.loop_mode = "ONCE") =>
        /\ call.time > duration(TheSeq) =>
              call.result = get_rotations_at_time(TheSeq, duration(TheSeq))
        /\ call.time < 0 =>
              call.result = get_rotations_at_time(TheSeq, 0)

\* a ONCE query beyond the duration of a sequence whose last two keyframes
\* share the final time with different rotations
C5_Witness ==
    /\ Queried
    /\ TheSeq.loop_mode = "ONCE"
    /\ Len(Kfs) = 2
    /\ Kfs[1].time = Kfs[2].time
    /\ Kfs[1].time > 0
    /\ Kfs[1].rotations # Kfs[2].rotations
    /\ call.time > duration(TheSeq)
    /\ call.result = Kfs[1].rotations

\* a ONCE query before time 0 of a sequence whose first keyframe is later
C5_WitnessNegative ==
    /\ Queried
    /\ TheSeq.loop_mode = "ONCE"
    /\ Len(Kfs) = 2
    /\ Kfs[1].time > 0
    /\ Kfs[2].time > Kfs[1].time
    /\ call.time < 0
    /\ call.result = Kfs[1].rotations

(***************************************************************************)
(* Claims about MotionPlayer, checked under Spec.                          *)
(***************************************************************************)
\* ease_in_out at the fraction bt / bd, written out
EaseInOutWeight(bt, bd) ==
    IF 2 * bt < bd
    THEN Rat(2 * bt * bt, bd * bd)
    ELSE RSub(R1, Rat((2 * bd - 2 * bt) * (2 * bd - 2 * bt), 2 * bd * bd))

\* The step wrote the frame of the current sequence at the new playback
\* time: every joint the sequence resolves there holds the resolved rotation,
\* or inside a blend window snapshot*(1-w) + resolved*w, every other joint
\* keeps its rotation, and the world positions are recomputed.
FrameWritten ==
    LET active == Truthy(blend_from) /\ blend_time' < blend_duration
    IN  /\ \A resolved \in
                {get_rotations_at_time(motions[current_motion], current_time')} :
            \A w \in {IF active
                      THEN EaseInOutWeight(blend_time', blend_duration)
                      ELSE R1} :
              \A j \in DOMAIN rotation :
                rotation'[j] =
                    IF j \notin DOMAIN resolved THEN rotation[j]
                    ELSE IF active
                         THEN Lerp(blend_from[j], resolved[j], w)
                         ELSE resolved[j]
        /\ fk_rotation' = rotation'

\* an update call on a player that is playing a sequence
RunningUpdate ==
    call'.op = "update" /\ is_playing /\ current_motion # NoMotion

\* that update call reaches the end of a ONCE sequence
FinishingUpdate ==
    /\ RunningUpdate
    /\ motions[current_motion].loop_mode = "ONCE"
    /\ current_time' >= duration(motions[current_motion])

\* C6 as stated: an update that reaches the end of a ONCE sequence stops
\* the player and writes no frame into the skeleton.
C6_AsStated ==
    [][FinishingUpdate =>
          /\ is_playing' = FALSE
          /\ call'.ret = is_playing'
          /\ UNCHANGED <<rotation, fk_rotation>>]_vars

\* C6 amended: an update on a playing player stops it exactly when the
\* sequence is ONCE and the advanced time has reached the duration, returns
\* the playing flag after the call, and in both cases, the stopping call
\* included, resolves the frame at the advanced time and writes it.
C6_UpdateAppliesFrame ==
    [][RunningUpdate =>
          /\ is_playing' = ~FinishingUpdate
          /\ call'.ret = is_playing'
          /\ FrameWritten]_vars

\* an update has just stopped the ONCE clip "nod" and left its final frame
\* in the skeleton
C6_Witness ==
    /\ call.op = "update"
    /\ call.was_playing
    /\ call.ret = FALSE
    /\ ~is_playing
    /\ current_motion = 1
    /\ current_time >= duration(motions[1])
    /\ rotation["NECK"] = Vec(1, 0, 0)

\* C7 as stated: play arms a blend exactly when the blend duration is
\* positive and the player is playing at the call.
C7_AsStated ==
    [][call'.op = "play" =>
          (Truthy(blend_from') <=> (call'.blend_duration > 0 /\ is_playing))
      ]_vars

\* C7 amended: play arms a blend (snapshot of every joint's rotation at the
\* call, blend timer 0) exactly when the blend duration is positive and a
\* current sequence is set, playing or stopped; otherwise no blend is
\* active after play.
C7_BlendArmedIffSequenceSet ==
    [][call'.op = "play" =>
          IF call'.blend_duration > 0 /\ current_motion # NoMotion
          THEN /\ blend_from' = rotation
               /\ DOMAIN blend_from' = BuiltJoints
               /\ blend_duration' = call'.blend_duration
               /\ blend_time' = 0
          ELSE ~Truthy(blend_from')]_vars

\* play with a blend on a stopped player that had played before: the blend
\* is armed with the pose the earlier sequence left
C7_Witness ==
    /\ call.op = "play"
    /\ ~call.was_playing
    /\ call.blend_duration > 0
    /\ Truthy(blend_from)
    /\ blend_from # RestRotation
    /\ blend_time = 0

\* a call that runs _apply_current_frame on a sequence
FrameApplied ==
    /\ current_motion # NoMotion
    /\ \/ call'.op = "set_time"
       \/ call'.op = "update" /\ is_playing

\* C8: _apply_current_frame writes, for every joint the sequence resolves,
\* snapshot*(1-w) + resolved*w with w = easeInOut(elapsed/duration) while
\* the blend window is open, and the resolved rotation once it has closed;
\* from a zero snapshot to NECK = [1,0,0] at half the blend duration the
\* NECK rotation is 1/2 on the X axis.
C8_BlendedFrame ==
    [][FrameApplied =>
          /\ FrameWritten
          /\ (/\ Truthy(blend_from)
              /\ 2 * blend_time' = blend_duration
              /\ blend_from["NECK"] = Zeros3
              /\ get_rotations_at_time(motions[current_motion], current_time')
                    = ("NECK" :> Vec(1, 0, 0)))
             => rotation'["NECK"] = <<Rat(1, 2), R0, R0>>]_vars

\* a frame written a quarter into a blend window: NECK lies between a
\* non-zero snapshot and the resolved rotation
C8_Witness ==
    /\ call.op = "update"
    /\ call.was_playing
    /\ Truthy(blend_from)
    /\ 4 * blend_time = blend_duration
    /\ current_motion = 1
    /\ blend_from["NECK"] = Vec(1, 0, 0)
    /\ rotation["NECK"] # blend_from["NECK"]
    /\ rotation["NECK"] #
          get_rotations_at_time(motions[1], current_time)["NECK"]

\* the blend window has closed and update wrote the resolved frame
C8_WitnessClosed ==
    /\ call.op = "update"
    /\ call.was_playing
    /\ Truthy(blend_from)
    /\ blend_time >= blend_duration
    /\ blend_from["NECK"] # rotation["NECK"]
    /\ current_motion = 1
    /\ rotation["NECK"] =
          get_rotations_at_time(motions[1], current_time)["NECK"]

\* C9: set_time sets the playback time to its argument whatever the
\* playback speed, writes the frame for it, and changes neither the playing
\* flag nor the blend state nor the current sequence.
C9_SetTimeScrubs ==
    [][call'.op = "set_time" =>
          /\ current_time' = call'.time
          /\ UNCHANGED <<is_playing, blend_time, blend_from, blend_duration,
                         current_motion, playback_speed>>
          /\ IF current_motion # NoMotion THEN FrameWritten
             ELSE UNCHANGED <<rotation, fk_rotation>>]_vars

\* set_time past the end of the ONCE clip on a playing player at double
\* speed inside a blend window: still playing, the blend timer untouched
C9_Witness ==
    /\ call.op = "set_time"
    /\ call.was_playing
    /\ is_playing
    /\ current_motion = 1
    /\ call.time > duration(motions[1])
    /\ current_time = call.time
    /\ playback_speed = 2
    /\ Truthy(blend_from)
    /\ blend_time = 0
    /\ rotation["NECK"] # get_rotations_at_time(motions[1], current_time)["NECK"]

\* C10: stop clears the playing flag and leaves the playback time, the
\* current sequence, the blend state, the sequences and the skeleton as
\* they were.
C10_StopOnlyStops ==
    [][call'.op = "stop" =>
          /\ is_playing' = FALSE
          /\ UNCHANGED <<current_time, current_motion, blend_from,
                         blend_duration, blend_time, playback_speed,
                         motions, rotation, fk_rotation>>]_vars

\* stop on a playing player part-way through a sequence and a blend
C10_Witness ==
    /\ call.op = "stop"
    /\ call.was_playing
    /\ ~is_playing
    /\ current_motion # NoMotion
    /\ current_time > 0
    /\ Truthy(blend_from)
    /\ 0 < blend_time
    /\ blend_time < blend_duration
    /\ rotation # RestRotation

(***************************************************************************)
(* Claims about keyframe ties and add_keyframe, checked under SpecEval.    *)
(***************************************************************************)
\* the keyframes handed to add_keyframe with time T, in call order
AddedAt(T) == SelectSeq(added, LAMBDA kf : kf.time = T)
\* the keyframes of the list with time T, in list order
KfsAt(T) == SelectSeq(Kfs, LAMBDA kf : kf.time = T)

\* the observed query resolves at exactly time T: the sequence has a positive
\* duration and the query time remaps to T, or the duration is 0 (then no
\* remapping happens and every keyframe is at time 0)
ResolvesAt(T) ==
    /\ Queried
    /\ Kfs # <<>>
    /\ IF duration(TheSeq) > 0
       THEN RemapTime(TheSeq.loop_mode, call.time, duration(TheSeq)) = T
       ELSE T = 0

\* C15 as stated: of several keyframes sharing a time T, a query that remaps
\* to exactly T returns the rotations of the one inserted last.
C15_AsStated ==
    \A T \in KeyTimes :
        /\ ResolvesAt(T)
        /\ duration(TheSeq) > 0
        /\ Len(AddedAt(T)) >= 2
        => call.result = AddedAt(T)[Len(AddedAt(T))].rotations

\* C15: of several keyframes sharing a time T, a query that resolves at
\* exactly T returns the rotations of the one inserted first.
C15_FirstInsertedWins ==
    \A T \in KeyTimes :
        ResolvesAt(T) /\ Len(AddedAt(T)) >= 2
        => call.result = AddedAt(T)[1].rotations

\* a query at a time shared by two keyframes with different rotations, the
\* duration positive: the first inserted is returned, not the last
C15_Witness ==
    \E T \in KeyTimes :
        /\ ResolvesAt(T)
        /\ duration(TheSeq) > 0
        /\ Len(AddedAt(T)) >= 2
        /\ AddedAt(T)[1].rotations # AddedAt(T)[Len(AddedAt(T))].rotations
        /\ call.result = AddedAt(T)[1].rotations

\* the largest time among the keyframes handed to add_keyframe, 0 if none
MaxAddedTime ==
    IF added = <<>> THEN 0
    ELSE CHOOSE t \in {added[i].time : i \in 1..Len(added)} :
             \A i \in 1..Len(added) : added[i].time <= t

\* C16: after any add_keyframe calls on an empty sequence the keyframe list
\* is in non-decreasing time order, holds exactly the keyframes added with
\* those of equal time in the order they were added, and duration is the
\* largest keyframe time, 0 without keyframes.
C16_SortedStableComplete ==
    /\ \A i, k \in 1..Len(Kfs) : i < k => Kfs[i].time <= Kfs[k].time
    /\ Len(Kfs) = Len(added)
    /\ \A T \in KeyTimes : KfsAt(T) = AddedAt(T)
    /\ duration(TheSeq) = MaxAddedTime

\* a keyframe was added before an earlier-timed one, and two different
\* keyframes share a time
C16_Witness ==
    /\ call.op = "add_keyframe"
    /\ \E i, k \in 1..Len(added) :
          /\ i < k
          /\ \/ added[i].time > added[k].time
             \/ added[i].time = added[k].time /\ added[i] # added[k]
    /\ Len(Kfs) = MaxKeyframes

(***************************************************************************)
(* Claims about the skeleton, checked under SpecFK.                        *)
(***************************************************************************)
\* the last call ended with update_world_positions
JustUpdated ==
    \/ call.op \in {"init", "update_world_positions", "reset_pose",
                    "set_global_transform", "generate_motion_frames"}
    \/ call.op \in {"set_pose", "interpolate_pose"} /\ call.ret
    \/ call.op = "set_time" /\ current_motion # NoMotion
    \/ call.op = "update" /\ call.was_playing /\ current_motion # NoMotion

\* C11: after update_world_positions the root is at the global position
\* with world rotation E(global_rotation) * E(root.rotation), and every other
\* joint j with parent p is at world_position(p) + worldRotation(p) *
\* local_offset(j) with world rotation worldRotation(p) * E(j.rotation), E
\* being euler_to_rotation_matrix.
C11_ForwardKinematics ==
    JustUpdated =>
        \A world \in {World} :
            /\ world["ROOT"].world_position = global_position
            /\ world["ROOT"].world_rotation_matrix =
                  MatMul(euler_to_rotation_matrix(global_rotation),
                         euler_to_rotation_matrix(rotation["ROOT"]))
            /\ \A j \in DOMAIN joints \ {"ROOT"} :
                  \A p \in {world[joints[j].parent]} :
                      /\ world[j].world_position =
                            VAdd(p.world_position,
                                 MatVec(p.world_rotation_matrix,
                                        joints[j].local_offset))
                      /\ world[j].world_rotation_matrix =
                            MatMul(p.world_rotation_matrix,
                                   euler_to_rotation_matrix(rotation[j]))

\* the root was rotated and the global rotation then set: the world
\* positions were recomputed and the nose has left the plane x = 0
C11_Witness ==
    /\ call.op = "set_global_transform"
    /\ global_rotation # Zeros3
    /\ rotation["ROOT"] # Zeros3
    /\ World["NOSE"].world_position[1] # R0

\* the world positions and rotation matrices QuadrupedSkeleton.__init__
\* computed: all rotations zero, the global transform zero
BuildWorld == update_world_positions(joints, RestRotation, Zeros3, Zeros3)

\* the sum of the local offsets from the root down to the joint
RECURSIVE OffsetFromRoot(_)
OffsetFromRoot(j) ==
    IF joints[j].parent = NoParent THEN joints[j].local_offset
    ELSE VAdd(OffsetFromRoot(joints[j].parent), joints[j].local_offset)

\* C12: with the global transform as it was at construction, reset_pose
\* (which ends with update_world_positions) puts every joint at the world
\* position it had right after construction, the sum of the offsets on its
\* path from the root, whatever rotations were set before.
C12_ResetRestoresBuild ==
    /\ call.op = "reset_pose"
    /\ global_position = Zeros3
    /\ global_rotation = Zeros3
    => \A world \in {World} :
          /\ get_all_joint_positions(joints, world) =
                get_all_joint_positions(joints, BuildWorld)
          /\ \A j \in DOMAIN joints :
                world[j].world_position = OffsetFromRoot(j)

\* reset_pose on a skeleton whose cached world positions came from a pose
C12_Witness ==
    /\ call.op = "reset_pose"
    /\ call.after = "set_time"
    /\ call.was_posed
    /\ global_position = Zeros3
    /\ global_rotation = Zeros3
    /\ World["HEAD"].world_position = OffsetFromRoot("HEAD")

\* what the getters of a skeleton with these cached world positions return
Getters(world) ==
    [positions |-> get_all_joint_positions(joints, world),
     queried   |-> [j \in QueriedJoints |->
                       get_joint_position(joints, world, j)],
     bones     |-> get_bone_segments(joints, world),
     box       |-> get_bounding_box(joints, world)]

\* C13: set_joint_rotation writes the rotation of its joint and nothing
\* else: the cached world positions and rotation matrices of every joint,
\* and what every getter returns, are what they were before the call.
C13_SetJointRotationIsLazy ==
    [][call'.op = "set_joint_rotation"
          => /\ UNCHANGED <<buildVars, has_set_pose, motions, playerVars>>
             /\ \A j \in DOMAIN rotation :
                   rotation'[j] = IF j = call'.joint_type
                                  THEN call'.rotation
                                  ELSE rotation[j]
             /\ \A before \in {World},
                   after \in {update_world_positions(joints', fk_rotation',
                                 global_position', global_rotation')} :
                   /\ after = before
                   /\ Getters(after) = Getters(before)]_vars

\* set_joint_rotation has returned and the cached position of the head is
\* not the one the new rotations give
C13_Witness ==
    /\ call.op = "set_joint_rotation"
    /\ rotation[call.joint_type] = call.rotation
    /\ World["HEAD"].world_position #
          update_world_positions(joints, rotation, global_position,
                                 global_rotation)["HEAD"].world_position

\* sets of joints taken out of the joint map handed to get_bone_segments
AbsentJointSets == {{}, {"NOSE"}, {"NECK", "LEFT_BACK_PAW"}}

\* the joint map without the entries of these joints
WithoutJoints(jm, absent) == [j \in DOMAIN jm \ absent |-> jm[j]]

\* the bones with both ends in the joint map, in BONES order, as pairs of
\* world positions
RECURSIVE BonesPresent(_, _, _)
BonesPresent(present, world, bones) ==
    IF bones = <<>> THEN <<>>
    ELSE LET b == Head(bones)
             rest == BonesPresent(present, world, Tail(bones))
         IN  IF b[1] \in present /\ b[2] \in present
             THEN <<<<world[b[1]].world_position,
                      world[b[2]].world_position>>>> \o rest
             ELSE rest

\* C14: for a joint type that is not in the joint map, get_joint_position
\* raises KeyError and set_joint_rotation returns normally, and neither
\* changes any state; get_bone_segments leaves out exactly the bones with an
\* end that is not in the joint map and returns the others in BONES order.
C14_UnknownJointHandling ==
    [][/\ call'.op = "get_joint_position"
          => /\ call'.ret = IF call'.joint_type \in DOMAIN joints
                            THEN World[call'.joint_type].world_position
                            ELSE KeyError
             /\ call'.joint_type \in DOMAIN joints => call'.ret # KeyError
             /\ UNCHANGED <<skeletonVars, motions, playerVars>>
       /\ call'.op = "set_joint_rotation"
             /\ call'.joint_type \notin DOMAIN joints
          => /\ DOMAIN call' = {"op", "joint_type", "rotation"}
             /\ UNCHANGED <<skeletonVars, motions, playerVars>>
       /\ call'.op = "get_bone_segments"
          => \A world \in {World} :
                /\ call'.ret = BonesPresent(DOMAIN joints, world, BONES)
                /\ Len(call'.ret) = Len(BONES)
                /\ \A absent \in AbsentJointSets :
                      get_bone_segments(WithoutJoints(joints, absent), world)
                         = BonesPresent(DOMAIN joints \ absent, world, BONES)
                /\ UNCHANGED <<skeletonVars, motions, playerVars>>]_vars

\* get_joint_position was asked for a joint type the skeleton does not have
C14_Witness ==
    /\ call.op = "get_joint_position"
    /\ call.joint_type \notin DOMAIN joints
    /\ call.ret = KeyError
    /\ Len(get_bone_segments(WithoutJoints(joints, {"NECK", "LEFT_BACK_PAW"}),
                             World)) = Len(BONES) - 3

\* the joint rotations after play (with the base pose) and then
\* set_time(0/fps), set_time(1/fps), ..., set_time(i/fps), set before by rot
RECURSIVE RotationsAfterSetTimes(_, _, _, _)
RotationsAfterSetTimes(rot, seq, fps, i) ==
    IF i < 0
    THEN (IF seq.base_pose # NoPose /\ has_set_pose
          THEN set_pose(rot, seq.base_pose)
          ELSE rot)
    ELSE ApplyRotations(RotationsAfterSetTimes(rot, seq, fps, i - 1),
                        get_rotations_at_time(seq, (i * fps[2]) \div fps[1]))

\* C17: generate_motion_frames returns floor(duration * fps) + 1 frames;
\* frame i is what get_all_joint_positions returns right after the player's
\* set_time(i / fps), with 0 <= i / fps <= duration, and stays what it was
\* when later frames are sampled.
C17_FrameSampling ==
    [][call'.op = "generate_motion_frames"
          => \A seq \in {motions[call'.motion]}, fps \in {call'.fps},
                frames \in {call'.ret} :
                /\ \E floor \in 0..(duration(seq) * fps[1]) :
                      /\ floor * fps[2] <= duration(seq) * fps[1]
                      /\ (floor + 1) * fps[2] > duration(seq) * fps[1]
                      /\ Len(frames) = floor + 1
                /\ \A i \in 0..(Len(frames) - 1) :
                      /\ RLe(R0, RDiv(RInt(i), fps))
                      /\ RLe(RDiv(RInt(i), fps), RInt(duration(seq)))
                      /\ \A rot \in {RotationsAfterSetTimes(rotation, seq,
                                                           fps, i)} :
                            frames[i + 1] =
                               get_all_joint_positions(joints,
                                  update_world_positions(joints, rot,
                                     global_position, global_rotation))
                /\ UNCHANGED <<buildVars, motions, playerVars>>]_vars

\* frames were sampled at a rate that does not divide the duration, and
\* the first frame is not the last
C17_Witness ==
    /\ call.op = "generate_motion_frames"
    /\ (duration(motions[call.motion]) * call.fps[1]) % call.fps[2] # 0
    /\ Len(call.ret) >= 2
    /\ call.ret[1] # call.ret[Len(call.ret)]

\* the bones as a set, and the joint types that are an end of a bone
BoneSet == {BONES[i] : i \in DOMAIN BONES}
BoneEndpoints == {b[1] : b \in BoneSet} \cup {b[2] : b \in BoneSet}

\* the parent-child edges of the joint tree, read off the children lists
TreeEdges ==
    UNION {{<<a, joints[a].children[i]>> : i \in DOMAIN joints[a].children} :
              a \in DOMAIN joints}

\* following Joint.parent from the joint for at most n steps ends at ROOT
RECURSIVE ReachesRoot(_, _)
ReachesRoot(j, n) ==
    \/ j = "ROOT"
    \/ /\ n > 0
       /\ joints[j].parent \in DOMAIN joints
       /\ ReachesRoot(joints[j].parent, n - 1)

BonesMatchTree ==
    /\ DOMAIN joints = BoneEndpoints
    /\ \A b \in BoneSet :
          /\ joints[b[2]].parent = b[1]
          /\ b \in TreeEdges
    /\ TreeEdges = BoneSet
    /\ \A j \in DOMAIN joints :
          /\ joints[j].parent = NoParent <=> j = "ROOT"
          /\ j # "ROOT" =>
                /\ Cardinality({a \in DOMAIN joints :
                       \E i \in DOMAIN joints[a].children :
                          joints[a].children[i] = j}) = 1
                /\ Cardinality({i \in DOMAIN joints[joints[j].parent].children :
                       joints[joints[j].parent].children[i] = j}) = 1
          /\ ReachesRoot(j, Cardinality(DOMAIN joints))

\* C18: in every state of a built skeleton the joint map holds exactly the
\* joint types that are bone ends, the bones are exactly the parent-child
\* edges of the joint tree, the tree is rooted at ROOT and every other joint
\* has exactly one parent; no call changes the joint tree.
C18_BonesMatchTree ==
    /\ []BonesMatchTree
    /\ [][joints' = joints]_vars

\* a pose was interpolated on a skeleton whose tree has the head's five
\* bones
C18_Witness ==
    /\ call.op = "interpolate_pose"
    /\ call.ret
    /\ joints["NOSE"].parent = "HEAD"
    /\ Len(joints["HEAD"].children) = 5
    /\ Len(BONES) = Cardinality(DOMAIN joints) - 1

\* the step leaves every joint rotation and every cached world position and
\* world rotation matrix as it was
SkeletonUntouched ==
    /\ UNCHANGED skeletonVars
    /\ \A before \in {World},
          after \in {update_world_positions(joints', fk_rotation',
                        global_position', global_rotation')} :
          after = before

\* C19: set_pose and interpolate_pose given a name that is not a pose of the
\* skeleton return False and leave the joint rotations and the world
\* positions as they were; play of a sequence whose base pose is not a pose
\* of the skeleton, or on a skeleton that has no set_pose, returns normally
\* with the player playing that sequence.
C19_UnknownPose ==
    [][/\ call'.op = "set_pose"
          => /\ call'.ret = (call'.pose_name \in PoseNames)
             /\ ~call'.ret => SkeletonUntouched
       /\ call'.op = "interpolate_pose"
          => /\ call'.ret = (/\ call'.pose_name_a \in PoseNames
                             /\ call'.pose_name_b \in PoseNames)
             /\ ~call'.ret => SkeletonUntouched
       /\ call'.op = "play"
             /\ \/ motions[call'.motion].base_pose \notin PoseNames
                \/ ~has_set_pose
          => /\ is_playing'
             /\ current_motion' = call'.motion
             /\ DOMAIN call' = {"op", "was_playing", "motion", "blend_duration"}
             /\ SkeletonUntouched]_vars

\* set_pose was given an unknown name on a skeleton that is not in its rest
\* pose
C19_Witness ==
    /\ call.op = "set_pose"
    /\ call.pose_name = UnknownPose
    /\ ~call.ret
    /\ rotation # RestRotation

\* the vector times a number
VScale(k, v) == <<RMul(k, v[1]), RMul(k, v[2]), RMul(k, v[3])>>

\* every local offset of the skeleton is shape.scale times the offset the
\* same shape gives at scale 1
OffsetsScaled ==
    \A unit \in {build_skeleton([shape EXCEPT !.scale = R1])} :
        /\ DOMAIN unit = DOMAIN joints
        /\ \A j \in DOMAIN joints :
              joints[j].local_offset =
                 VScale(shape.scale, unit[j].local_offset)

\* C20: right after construction every joint's local offset is shape.scale
\* times the offset the same shape gives at scale 1; assigning shape.scale
\* afterwards changes no local offset and no world position.
C20_ScaleAtBuild ==
    /\ [](call.op = "init" => OffsetsScaled)
    /\ [][call'.op = "set_scale"
             => /\ joints' = joints
                /\ \A before \in {World},
                      after \in {update_world_positions(joints', fk_rotation',
                                    global_position', global_rotation')} :
                      after = before]_vars

\* shape.scale was assigned after construction and the offsets are not the
\* ones the shape would now give
C20_Witness ==
    /\ call.op = "set_scale"
    /\ shape.scale # R1
    /\ joints # build_skeleton(shape)
    /\ joints["NECK"].local_offset[2] # R0

\* C21: constructing a skeleton never fails and yields every joint of the
\* hierarchy, for every shape: segment counts from 0, and zero and negative
\* measurements.
C21_AsStated ==
    call.op = "init"
    => /\ "raised" \notin DOMAIN call
       /\ DOMAIN joints = JointType

\* C22 as stated: each easing function maps every t in [0, 1] into [0, 1],
\* with f(0) = 0 and f(1) = 1.
C22_AsStated ==
    call.op = "ease"
    => /\ RLe(R0, call.ret)
       /\ RLe(call.ret, R1)
       /\ call.t = R0 => call.ret = R0
       /\ call.t = R1 => call.ret = R1

\* C22: each easing function has f(0) = 0 and f(1) = 1 and is never
\* negative on [0, 1]; linear, ease_in, ease_out and ease_in_out stay at or
\* below 1; bounce overshoots: it is above 1 exactly for 1/2 < t < 3/4 and
\* never above 1.1.
C22_EasingRange ==
    call.op = "ease"
    => /\ RLe(R0, call.ret)
       /\ call.t = R0 => call.ret = R0
       /\ call.t = R1 => call.ret = R1
       /\ call.easing # "BOUNCE" => RLe(call.ret, R1)
       /\ call.easing = "BOUNCE"
          => /\ RLe(call.ret, Rat(11, 10))
             /\ RLt(R1, call.ret)
                   <=> RLt(Rat(1, 2), call.t) /\ RLt(call.t, Rat(3, 4))

\* bounce at its peak, t = 5/8
C22_Witness ==
    /\ call.op = "ease"
    /\ call.easing = "BOUNCE"
    /\ call.t = Rat(5, 8)
    /\ call.ret = Rat(11, 10)

\* MotionSequence.get_all_affected_joints: the joints a keyframe names
AffectedJoints(seq) ==
    UNION {DOMAIN seq.keyframes[i].rotations : i \in DOMAIN seq.keyframes}

\* C23: generate_motion_frames with include_base_pose False never applies
\* the base pose: the joints the sequence does not name keep the rotations
\* they had before the call; with include_base_pose True the base pose is
\* applied before the first frame.
C23_AsStated ==
    [][call'.op = "generate_motion_frames"
          => \A seq \in {motions[call'.motion]} :
                /\ ~call'.include_base_pose
                   => \A j \in DOMAIN rotation \ AffectedJoints(seq) :
                         rotation'[j] = rotation[j]
                /\ call'.include_base_pose /\ has_set_pose
                      /\ seq.base_pose \in PoseNames
                   => \A j \in DOMAIN rotation \ AffectedJoints(seq) :
                         rotation'[j] =
                            set_pose(rotation, seq.base_pose)[j]]_vars

\* C24: no play, update, set_time or stop changes a sequence: every
\* keyframe's time, easing and rotations stay what they were; and the
\* mapping get_rotations_at_time hands to the player is never a keyframe's
\* own mapping.
C24_AsStated ==
    [][/\ motions' = motions
       /\ call'.op \in {"update", "set_time"} /\ current_motion' # NoMotion
             /\ (call'.op = "update" => call'.was_playing)
          => ~ReturnsKeyframeDict(motions[current_motion'])]_vars

\* the joint rotations of a freshly built skeleton after play(seq) alone
RotationsAfterPlay(seq) ==
    IF seq.base_pose # NoPose /\ has_set_pose
    THEN set_pose(RestRotation, seq.base_pose)
    ELSE RestRotation

\* C25: with no blend active, the joint rotations after set_time(t) are
\* those of a player that was scrubbed to t straight after play, whatever
\* update and set_time calls came in between.
C25_AsStated ==
    call.op = "set_time" /\ current_motion # NoMotion
    => \A seq \in {motions[current_motion]} :
          rotation = ApplyRotations(RotationsAfterPlay(seq),
                         get_rotations_at_time(seq, current_time))

\* C26: once play has armed a blend, updates alone carry the blend-elapsed
\* time to the blend duration: no update leaves the player in a state
\* where the blend is still short of its duration and further updates do
\* nothing (the player stopped by that update itself).
C26_AsStated ==
    ~(/\ call.op = "update" /\ call.was_playing /\ ~is_playing
      /\ Truthy(blend_from) /\ blend_time < blend_duration)

\* the player is Playing a ONCE sequence
PlayingOnce ==
    /\ is_playing
    /\ current_motion # NoMotion
    /\ motions[current_motion].loop_mode = "ONCE"

\* C27: a player Playing a ONCE sequence whose caller keeps calling update
\* eventually has an update return False with the player Stopped, from any
\* start time and at any speed above 0; and a Stopped player is still
\* Stopped after every call other than play.
C27_OnceTerminates ==
    /\ [](PlayingOnce => <>(/\ ~is_playing
                            /\ call.op = "update"
                            /\ call.ret = FALSE))
    /\ [][~is_playing /\ call'.op # "play" => ~is_playing']_vars

\* an update has just finished a ONCE sequence that was started past time 0
\* and played at a speed above 1
C27_Witness ==
    /\ call.op = "update" /\ call.was_playing /\ call.ret = FALSE
    /\ ~is_playing
    /\ current_motion # NoMotion
    /\ motions[current_motion].loop_mode = "ONCE"
    /\ duration(motions[current_motion]) > 0
    /\ current_time >= duration(motions[current_motion])
    /\ playback_speed > 1

\* C28: the player leaves Playing only by stop, or by an update of a ONCE
\* sequence that carries the playback time to the duration or past it;
\* while a LOOP or PING_PONG sequence is Playing, update returns True and
\* update and set_time leave the player Playing.
C28_OnlyUpdateFinishes ==
    [][/\ is_playing /\ ~is_playing'
          => \/ call'.op = "stop"
             \/ /\ call'.op = "update"
                /\ current_motion # NoMotion
                /\ motions[current_motion].loop_mode = "ONCE"
                /\ current_time' >= duration(motions[current_motion])
       /\ /\ is_playing
          /\ current_motion # NoMotion
          /\ call'.op \in {"update", "set_time"}
          => /\ motions[current_motion].loop_mode \in {"LOOP", "PING_PONG"}
                => /\ is_playing'
                   /\ call'.op = "update" => call'.ret = TRUE
             /\ call'.op = "set_time" => is_playing']_vars

\* an update has carried a Playing LOOP or PING_PONG sequence past its
\* duration and returned True
C28_Witness ==
    /\ call.op = "update" /\ call.ret = TRUE
    /\ is_playing
    /\ current_motion # NoMotion
    /\ motions[current_motion].loop_mode \in {"LOOP", "PING_PONG"}
    /\ current_time > duration(motions[current_motion])

\* C29: update on a Stopped player returns False and leaves the playback
\* time, the blend-elapsed time, the current sequence, the sequences, every
\* joint rotation and everything the world positions are computed from as
\* they were.
C29_StoppedUpdateIsNoOp ==
    [][call'.op = "update" /\ ~is_playing
       => /\ call'.ret = FALSE
          /\ UNCHANGED <<playerVars, motions, rotation, fk_rotation, joints,
                         global_position, global_rotation>>]_vars

\* an update has been called on a player that a stop or the end of a ONCE
\* sequence left Stopped away from time 0 with joints rotated
C29_Witness ==
    /\ call.op = "update" /\ ~call.was_playing /\ call.ret = FALSE
    /\ current_motion # NoMotion
    /\ current_time # 0
    /\ rotation # RestRotation

\* C30: the player starts Stopped with no sequence at time 0; whenever it
\* is Playing a current sequence is set; and once a sequence is set no call
\* leaves the player without one.
C30_PlayingHasSequence ==
    /\ ~is_playing /\ current_motion = NoMotion /\ current_time = 0
    /\ [](is_playing => current_motion # NoMotion)
    /\ [][current_motion # NoMotion => current_motion' # NoMotion]_vars

\* a stop has left the player Stopped with the sequence it was playing
\* still set
C30_Witness ==
    /\ call.op = "stop" /\ call.was_playing
    /\ ~is_playing
    /\ current_motion # NoMotion

=============================================================================
